---- MODULE Spec2Model ----
(***************************************************************************)
(* Chasm UI: local fork session, snapshot stack and the execution          *)
(* pipelines of RequestTab (handleExecute) and ContractDetailsTab          *)
(* (handleSendEth), as a state machine.  One action per suspension point   *)
(* of the async handlers; React state updates issued between two awaits    *)
(* are applied in one step.                                                *)
(***************************************************************************)
EXTENDS Integers, Sequences, FiniteSets, TLC

\* ---------------------------------------------------------------- bounds
MaxOps == 2         \* operator actions and timer polls started per run
MaxDeepOps == 3     \* the same, for the runs that follow three operations
MaxInFlight == 2    \* handlers suspended at an await at the same time
MaxTraceOps == 4    \* operator actions per run of the trace pipeline
MaxModeOps == 3     \* operator actions per run of the mode switch and dashboard

\* ------------------------------------------------------------- constants
NoId == 0           \* null: activeSnapshotId, pendingSnapshotIdRef, txHash, blockNumber
Ports == {9000}     \* ports the fork lifecycle service may report

RequestTabId == "req"        \* a RequestTab instance
DetailsTabId == "det"        \* a ContractDetailsTab instance
RevertId == "rv"             \* the revertSnapshot callback of App
EffectsId == "fx"            \* ensureLocalClients called from an effect
Tabs == {RequestTabId, DetailsTabId}
Flows == Tabs \cup {RevertId, EffectsId}

\* endpoints: host and port of an RPC URL
NoEndpoint == [host |-> "", port |-> 0]
DEFAULT_RPC == [host |-> "127.0.0.1", port |-> 8545]
LiveUrls == {DEFAULT_RPC, [host |-> "rpc.example", port |-> 443]}
TracePorts == {9000, 9001}   \* ports the service may report over restarts

\* authoring paths of the two tab components
RequestPaths == {"formCall", "formDeploy", "rawSend", "rawOther"}
DetailsPaths == {"sendEth"}
\* reads of RequestTab: a view/pure function in form view, a raw eth_call
ReadPaths == {"formRead", "rawEthCall"}
PathsOf(t) == IF t = RequestTabId THEN RequestPaths ELSE DetailsPaths

VARIABLES
  globalMode,        \* App: 'live' | 'local'
  localForkStatus,   \* App: {running, port}
  snapshots,         \* App: SnapshotEntry[], newest first
  activeSnapshotId,  \* App: headId
  now,               \* last value returned by Date.now()
  nextLocalId,       \* stands for `snap-${Date.now()}-${random}`: a fresh id
  svc,               \* fork lifecycle service: {running, port}
  startCount,        \* POST /fork/start requests received by the service
  chain,             \* fork node: mined transactions, oldest first
  nodeSnaps,         \* fork node: checkpoint id -> chain length at capture
  nextSnapId,        \* fork node: next evm_snapshot id
  flow,              \* per tab / callback: position and local state
  stopPc,            \* stopLocalFork: "idle" | "stopping" | "rejected" (its promise rejected)
  probe,             \* fetchForkStatus: in-flight response
  lastStamp,         \* the request whose snapshot read Date.now() last
  ops,               \* operator actions and timer polls started so far
  budget,            \* operator actions and timer polls this run may start
  rpcUrl,            \* App: the live RPC URL setting
  tr,                \* per tab: response, error and trace state of the component
  traceReq,          \* per tab: the last request sent to the trace service
  abiItem,           \* RequestTab props: type of the tab and mutability of its ABI item
  form,              \* RequestTab: value, valueUnit, gasLimit, inputs
  rawJsonInput,      \* RequestTab: content of the raw JSON-RPC editor
  requestViewMode,   \* RequestTab: 'form' | 'rpc'
  rawEdited,         \* the raw editor was typed in since the rpc view was opened
  activeView,        \* App: 'contracts' | 'explorer'
  tabs,              \* App: the instance tabs that are open
  recentBlocks,      \* App: blocks of the dashboard, newest first
  recentTransactions, \* App: transaction hashes of the dashboard, newest first
  blockModes,        \* App: block hash -> 'live' | 'local' ("none": no entry)
  txModes,           \* App: transaction hash -> 'live' | 'local' ("none": no entry)
  poll,              \* fetchLatest: the getBlock in flight and the render it runs in
  purged,            \* hashes the purge effect dropped when it last ran
  purgeDue,          \* txModes or blockModes is another object than at the purge effect's last run
  purgeRuns,         \* runs of the purge effect that no handler's render started
  privateKey,        \* App: the signing key, in each of two runs of the App
  localForkBlock,    \* App: the fork block setting ("": latest)
  hasLoadedSettings, \* App: hasLoadedSettings.current
  storage,           \* localStorage item "chainsmith.settings", in each of the two runs
  localPublicClient, \* ContractDetailsTab: the fork client it holds, as its port (NoId: null)
  contractBalance,   \* ContractDetailsTab: the client that served the balance shown
  searchResult       \* Explorer: the client that served the search result shown

vars == <<globalMode, localForkStatus, snapshots, activeSnapshotId, now,
          nextLocalId, svc, startCount, chain, nodeSnaps, nextSnapId, flow,
          stopPc, probe, lastStamp, ops, budget, rpcUrl, tr, traceReq,
          abiItem, form, rawJsonInput, requestViewMode, rawEdited,
          activeView, tabs, recentBlocks, recentTransactions, blockModes, txModes,
          poll, purged, purgeDue, purgeRuns, privateKey, localForkBlock, hasLoadedSettings, storage,
          localPublicClient, contractBalance, searchResult>>

appVars == <<globalMode, localForkStatus, snapshots, activeSnapshotId, now, nextLocalId, lastStamp>>
envVars == <<svc, startCount, chain, nodeSnaps, nextSnapId>>
cntVars == <<ops, budget>>
traceVars == <<rpcUrl, tr, traceReq>>
convVars == <<abiItem, form, rawJsonInput, requestViewMode, rawEdited>>
dashVars == <<recentBlocks, recentTransactions, blockModes, txModes, purged, purgeDue, purgeRuns>>
modeVars == <<activeView, tabs, dashVars, poll>>
settingsVars == <<privateKey, localForkBlock, hasLoadedSettings, storage>>
shownVars == <<contractBalance, searchResult>>
extVars == <<traceVars, convVars, modeVars, settingsVars, shownVars>>

\* ------------------------------------------------------------ pure parts

\* the client pair App memoizes for the running fork, as its port (NoId: null)
localClients ==
  IF localForkStatus.running /\ localForkStatus.port # NoId
  THEN localForkStatus.port ELSE NoId

\* public clients: the live endpoint's, or the one of the fork at a port
NoClient == [kind |-> "none", port |-> NoId]
LiveClient == [kind |-> "live", port |-> NoId]
forkClient(p) == [kind |-> "local", port |-> p]

\* a details tab is rendered: the contracts view shows the open tabs
detailsMounted(view, tbs) == view = "contracts" /\ \E t \in tbs : t.type = "details"

\* localPublicClient once the local-clients effect of ContractDetailsTab has
\* run for mode m and client pair clients (state is lost on unmount)
detailsClient(lpc, m, view, tbs, clients) ==
  IF ~detailsMounted(view, tbs) \/ m # "local" THEN NoId
  ELSE IF clients # NoId THEN clients ELSE lpc

\* the effect re-runs after every render that changed one of its dependencies
detailsEffect ==
  localPublicClient' =
    detailsClient(localPublicClient, globalMode', activeView', tabs', localClients')

\* an addSnapshot that writes the new entry over the newest one
addSnapshot_overwrites(snaps, lid, sid, req, t) ==
  <<[id |-> lid, snapshotId |-> sid, createdAt |-> t, req |-> req,
     status |-> "pending", txHash |-> NoId, blockNumber |-> NoId]>>
    \o (IF snaps = <<>> THEN <<>> ELSE Tail(snaps))

\* addSnapshot: prepend a pending entry stamped with Date.now()
addSnapshot(snaps, lid, sid, req, t) ==
  <<[id |-> lid, snapshotId |-> sid, createdAt |-> t, req |-> req,
     status |-> "pending", txHash |-> NoId, blockNumber |-> NoId]>> \o snaps

\* updateSnapshot: merge the patch into the entry with that local id
updateSnapshot(snaps, lid, patch) ==
  [i \in DOMAIN snaps |->
     IF snaps[i].id = lid
     THEN [k \in DOMAIN snaps[i] |-> IF k \in DOMAIN patch THEN patch[k] ELSE snaps[i][k]]
     ELSE snaps[i]]

\* prev.find(s => s.snapshotId === snapshotId): index of the first match, 0 if none
findTarget(snaps, sid) ==
  IF \E i \in DOMAIN snaps : snaps[i].snapshotId = sid
  THEN CHOOSE i \in DOMAIN snaps :
         /\ snaps[i].snapshotId = sid
         /\ \A j \in DOMAIN snaps : snaps[j].snapshotId = sid => i <= j
  ELSE 0

keepUpTo(s, t) == s.createdAt <= t

\* the setSnapshots updater of revertSnapshot
truncate(snaps, sid) ==
  LET i == findTarget(snaps, sid) IN
  IF i = 0 THEN snaps
  ELSE SelectSeq(snaps, LAMBDA s : keepUpTo(s, snaps[i].createdAt))

\* block number the node reports: the fork base counts as block 1
blockNumber(c) == Len(c) + 1

\* position of a mined transaction: its receipt's block number
blockOf(c, h) == 1 + CHOOSE i \in DOMAIN c : c[i] = h

mined(c, h) == \E i \in DOMAIN c : c[i] = h

\* `http://127.0.0.1:${port}`
forkRpc(port) == [host |-> "127.0.0.1", port |-> port]

\* -------------------------------------------------- response / trace state
\* what a running handleExecute still sees of the render it was started in
NoClosure ==
  [response |-> NoId, lastTxHash |-> NoId, error |-> FALSE, lastExecutionMode |-> "none",
   lastCallParams |-> NoId, globalMode |-> "live", localClients |-> NoId,
   rpcUrl |-> NoEndpoint, auto |-> FALSE, call |-> NoId]

\* response, error and trace state of a tab before its first execution
IdleTab ==
  [pc |-> "idle", response |-> NoId, lastTxHash |-> NoId, error |-> FALSE,
   lastExecutionMode |-> "none", lastCallParams |-> NoId, viewMode |-> "pretty",
   hadErrorRef |-> FALSE, dispatched |-> NoEndpoint, cl |-> NoClosure]

NoRequest ==
  [n |-> 0, kind |-> "none", endpoint |-> NoEndpoint, hash |-> NoId, call |-> NoId,
   blockTag |-> "none"]

TraceIdle ==
  /\ rpcUrl = DEFAULT_RPC
  /\ tr = [t \in Tabs |-> IdleTab]
  /\ traceReq = [t \in Tabs |-> NoRequest]

\* ------------------------------------------------ form and raw request
\* A decimal string typed into a number input is m * 10^(-d): "1.5" is
\* (15, 1), "21000" is (21, -3); empty marks the empty string.  An integer
\* string is written with m not divisible by 10.
Str(m, d) == [m |-> m, d |-> d, empty |-> FALSE]
EmptyStr == [m |-> 0, d |-> 0, empty |-> TRUE]

\* a bigint, as m * 10^e with m not divisible by 10
RECURSIVE canon(_, _)
canon(m, e) ==
  IF m = 0 THEN [m |-> 0, e |-> 0]
  ELSE IF m % 10 = 0 THEN canon(m \div 10, e + 1) ELSE [m |-> m, e |-> e]

Zero == [m |-> 0, e |-> 0]
Failed == [m |-> -1, e |-> 0]       \* the conversion threw

RECURSIVE Pow10(_)
Pow10(k) == IF k = 0 THEN 1 ELSE 10 * Pow10(k - 1)

unitDecimals(u) == IF u = "wei" THEN 0 ELSE IF u = "gwei" THEN 9 ELSE 18

\* viem parseUnits: digits beyond the unit's decimals are rounded half up
parseUnits(v, decimals) ==
  IF v.d <= decimals THEN canon(v.m, decimals - v.d)
  ELSE LET q == Pow10(v.d - decimals) IN canon((2 * v.m + q) \div (2 * q), 0)

\* viem formatUnits: the shortest decimal string of the amount
formatUnits(a, decimals) ==
  IF a.m = 0 THEN Str(0, 0) ELSE Str(a.m, decimals - a.e)

\* BigInt(string): an integer string, or a SyntaxError
BigIntOf(v) ==
  IF v.empty THEN Zero ELSE IF v.d > 0 THEN Failed ELSE canon(v.m, 0 - v.d)

\* bigint.toString()
toString(a) == IF a.m = 0 THEN Str(0, 0) ELSE Str(a.m, 0 - a.e)

\* getValueInWei: undefined (NoWei) for an empty value
NoWei == [m |-> -2, e |-> 0]
getValueInWei(f) ==
  IF f.value.empty THEN NoWei ELSE parseUnits(f.value, unitDecimals(f.valueUnit))

\* a hex numeral of the envelope: `0x${n.toString(16)}` has no leading zero
Hex(a) == [present |-> TRUE, amt |-> a, lead |-> FALSE]
NoHex == [present |-> FALSE, amt |-> Zero, lead |-> FALSE]

\* calldata: the function it selects and its encoded argument
NoData == [fn |-> "none", arg |-> Zero]
Bytecode == [fn |-> "bytecode", arg |-> Zero]

\* encodeFunctionData of the tab's function with the form's argument
encodeFunctionData(x) ==
  IF BigIntOf(x) = Failed THEN NoData ELSE [fn |-> "fn", arg |-> BigIntOf(x)]

\* the raw editor is empty, or generateRawJson returned ""
NoJson ==
  [method |-> "", to |-> "", from |-> "", data |-> NoData, value |-> NoHex, gas |-> NoHex,
   tag |-> ""]

isView(a) == a.type = "function" /\ a.view

\* a variant that zero-fills the value of a read
generateRawJson_zeroFilled(f, a) ==
  LET valBigInt == getValueInWei(f)
      gas == IF f.gasLimit.empty THEN NoWei ELSE BigIntOf(f.gasLimit)
  IN IF gas = Failed \/ (a.type = "function" /\ encodeFunctionData(f.input) = NoData)
     THEN NoJson
     ELSE [method |-> IF isView(a) THEN "eth_call" ELSE "eth_sendTransaction",
           to |-> IF a.type = "deploy" THEN "" ELSE "contract", from |-> "account",
           data |-> IF a.type = "deploy" THEN Bytecode ELSE encodeFunctionData(f.input),
           value |-> IF valBigInt # NoWei /\ valBigInt # Zero THEN Hex(valBigInt) ELSE Hex(Zero),
           gas |-> IF gas # NoWei /\ gas # Zero THEN Hex(gas) ELSE NoHex,
           tag |-> IF isView(a) THEN "latest" ELSE ""]

\* generateRawJson: the envelope of the form, NoJson when a conversion throws
generateRawJson(f, a) ==
  LET valBigInt == getValueInWei(f)
      gas == IF f.gasLimit.empty THEN NoWei ELSE BigIntOf(f.gasLimit)
  IN IF gas = Failed \/ (a.type = "function" /\ encodeFunctionData(f.input) = NoData)
     THEN NoJson
     ELSE [method |-> IF isView(a) THEN "eth_call" ELSE "eth_sendTransaction",
           to |-> IF a.type = "deploy" THEN "" ELSE "contract", from |-> "account",
           data |-> IF a.type = "deploy" THEN Bytecode ELSE encodeFunctionData(f.input),
           value |-> IF valBigInt # NoWei /\ valBigInt # Zero THEN Hex(valBigInt)
                     ELSE IF isView(a) THEN NoHex ELSE Hex(Zero),
           gas |-> IF gas # NoWei /\ gas # Zero THEN Hex(gas) ELSE NoHex,
           tag |-> IF isView(a) THEN "latest" ELSE ""]

\* the effect that keeps the raw editor in step with the form
syncRaw(raw, f, a, mode) ==
  IF mode = "form" /\ generateRawJson(f, a) # NoJson THEN generateRawJson(f, a) ELSE raw

\* handleViewSwitch to form: the fields the raw envelope carries overwrite the
\* form's; a decode error leaves the fields set before it
fromRaw(f, a, e) ==
  IF e = NoJson THEN f
  ELSE LET f1 == IF e.value.present
                 THEN [f EXCEPT !.value = formatUnits(e.value.amt, unitDecimals(f.valueUnit))]
                 ELSE f
           f2 == IF e.gas.present THEN [f1 EXCEPT !.gasLimit = toString(e.gas.amt)] ELSE f1
       IN IF a.type = "function" /\ e.data.fn = "fn"
          THEN [f2 EXCEPT !.input = toString(e.data.arg)]
          ELSE f2

\* a call as it reaches the node: target, calldata, value (none: 0) and gas
\* (NoWei: left to the node's estimate)
NoCall == [to |-> "", data |-> NoData, value |-> Zero, gas |-> NoWei]

\* deployContract: the bytecode followed by the encoded constructor argument
deployData(x) ==
  IF BigIntOf(x) = Failed THEN NoData ELSE [fn |-> "bytecode+args", arg |-> BigIntOf(x)]

\* the call handleExecute submits in form view (NoCall: a conversion throws
\* before anything is sent); readContract passes neither value nor gas
formCall(f, a) ==
  LET valBigInt == getValueInWei(f)
      gas == IF f.gasLimit.empty THEN NoWei ELSE BigIntOf(f.gasLimit)
      data == IF a.type = "deploy" THEN deployData(f.input) ELSE encodeFunctionData(f.input)
  IN IF gas = Failed \/ data = NoData THEN NoCall
     ELSE [to |-> IF a.type = "deploy" THEN "" ELSE "contract",
           data |-> data,
           value |-> IF isView(a) \/ valBigInt = NoWei THEN Zero ELSE valBigInt,
           gas |-> IF isView(a) THEN NoWei ELSE gas]

\* the call handleExecute submits in rpc view for envelope e
rawCall(e) ==
  [to |-> e.to, data |-> e.data,
   value |-> IF e.value.present THEN e.value.amt ELSE Zero,
   gas |-> IF e.gas.present THEN e.gas.amt ELSE NoWei]

InitialForm == [value |-> EmptyStr, valueUnit |-> "ether", gasLimit |-> EmptyStr, input |-> EmptyStr]

ViewFunction == [type |-> "function", view |-> TRUE, payable |-> FALSE]

ConvIdle ==
  /\ abiItem = ViewFunction
  /\ form = InitialForm
  /\ rawJsonInput = generateRawJson(InitialForm, ViewFunction)
  /\ requestViewMode = "form"
  /\ rawEdited = FALSE

\* ------------------------------------------------- mode and dashboard
\* deployments restored from storage: id and recorded mode
deployedInstances == {[id |-> "i1", mode |-> "live"], [id |-> "i2", mode |-> "local"]}

\* the latest block of the live chain, which is the block the fork starts
\* from, and its transaction
LiveTx == 50
LiveBlock == [hash |-> 101, number |-> 1, transactions |-> <<LiveTx>>]

\* the latest block of the fork: one block per mined transaction
forkBlock(c) ==
  IF c = <<>> THEN LiveBlock
  ELSE [hash |-> 200 + Len(c), number |-> blockNumber(c), transactions |-> <<c[Len(c)]>>]

BlockHashes == {LiveBlock.hash} \cup {200 + i : i \in 1..MaxModeOps}
TxHashes == {LiveTx} \cup 1..MaxModeOps

RecentBlocksCap == 50
RecentTransactionsCap == 100

NoPoll == [pc |-> "idle", mode |-> "live", port |-> NoId]

\* App as mounted: contracts view, no instance tab, empty dashboard.  Only
\* SpecMode opens views and tabs; the other specifications follow the runs in
\* which no effect has a call of ensureLocalClients under way.

ModeIdle ==
  /\ activeView = "contracts"
  /\ tabs = {}
  /\ recentBlocks = <<>>
  /\ recentTransactions = <<>>
  /\ blockModes = [h \in BlockHashes |-> "none"]
  /\ txModes = [h \in TxHashes |-> "none"]
  /\ poll = NoPoll
  /\ purged = {}
  /\ purgeDue = (globalMode = "live")   \* the effects of the first render have run
  /\ purgeRuns = 0

\* ------------------------------------------------------------ settings
\* The settings item of localStorage.  The App is followed in two runs that
\* receive the same inputs apart from the private key: the key entered, and
\* the privateKey field an older item may hold.
Runs == {1, 2}

DEFAULT_PRIV_KEY == "0xac09"
ANVIL_DEFAULT_KEY == "0xac09"
Keys == {DEFAULT_PRIV_KEY, "0x1111", "0x2222"}
LocalForkBlocks == {"", "19000000"}

\* getItem returned null, or a text JSON.parse throws on
NoItem ==
  [kind |-> "none", rpcUrl |-> NoEndpoint, privateKey |-> "absent",
   globalMode |-> "none", localForkBlock |-> "absent"]
CorruptItem == [NoItem EXCEPT !.kind = "corrupt"]

\* a parsed item; a field it lacks is NoEndpoint, "none" or "absent"
StoredItems ==
  {NoItem, CorruptItem} \cup
  [kind : {"json"}, rpcUrl : LiveUrls \cup {NoEndpoint}, privateKey : Keys \cup {"absent"},
   globalMode : {"none", "live", "local"}, localForkBlock : LocalForkBlocks \cup {"absent"}]

\* JSON.stringify({ rpcUrl, globalMode, localForkBlock })
stringify(url, mode, block) ==
  [kind |-> "json", rpcUrl |-> url, privateKey |-> "absent",
   globalMode |-> mode, localForkBlock |-> block]

settingsItem_withKey(r) ==
  [stringify(rpcUrl, globalMode, localForkBlock) EXCEPT !.privateKey = privateKey[r]]
\* what the persist effect writes in run r
settingsItem(r) == stringify(rpcUrl, globalMode, localForkBlock)

\* the load effect: the settings after it, from the item and the settings before
loadSettings(raw, st) ==
  IF raw.kind # "json" THEN st
  ELSE [rpcUrl |-> IF raw.rpcUrl # NoEndpoint THEN raw.rpcUrl ELSE st.rpcUrl,
        privateKey |-> ANVIL_DEFAULT_KEY,
        globalMode |-> IF raw.globalMode # "none" THEN raw.globalMode ELSE st.globalMode,
        localForkBlock |-> IF raw.localForkBlock # "absent" THEN raw.localForkBlock
                           ELSE st.localForkBlock]

\* App as mounted, nothing entered: the persist effect has written the settings
SettingsIdle ==
  /\ hasLoadedSettings = TRUE
  /\ privateKey = [r \in Runs |-> ANVIL_DEFAULT_KEY]
  /\ localForkBlock = ""
  /\ storage = [r \in Runs |-> settingsItem(r)]

\* no read was made yet
NoRead == [client |-> NoClient, mode |-> "none"]

ReadIdle ==
  /\ localPublicClient = NoId
  /\ contractBalance = NoRead
  /\ searchResult = NoRead

ExtIdle == TraceIdle /\ ConvIdle /\ ModeIdle /\ SettingsIdle /\ ReadIdle

\* ------------------------------------------------------------------ Init
IdleFlow ==
  [pc |-> "idle", path |-> "none", mode |-> "live", count |-> 0, port |-> NoId,
   pending |-> NoId, snapId |-> NoId, preBlock |-> NoId, req |-> 0,
   hash |-> NoId, block |-> NoId, error |-> "none", hadError |-> FALSE,
   loading |-> FALSE, target |-> NoId]

Stopped == [running |-> FALSE, port |-> NoId]

InitApp ==
  /\ globalMode \in {"live", "local"}   \* useState('live'), or the persisted setting
  /\ localForkStatus = Stopped
  /\ snapshots = <<>>
  /\ activeSnapshotId = NoId
  /\ now = 0
  /\ nextLocalId = 1
  /\ svc = Stopped
  /\ startCount = 0
  /\ chain = <<>>
  /\ nodeSnaps = <<>>
  /\ nextSnapId = 1
  /\ flow = [f \in Flows |-> IdleFlow]
  /\ stopPc = "idle"
  /\ probe = [pc |-> "idle", running |-> FALSE, port |-> NoId]
  /\ lastStamp = 0
  /\ ops = 0

Init == InitApp /\ ExtIdle /\ budget = MaxOps

InitDeep == InitApp /\ ExtIdle /\ budget = MaxDeepOps

\* handlers currently suspended at an await
InFlight ==
  Cardinality({f \in Flows : flow[f].pc # "idle"})
    + (IF stopPc = "stopping" THEN 1 ELSE 0) + (IF probe.pc # "idle" THEN 1 ELSE 0)

\* a new handler or poll may start
CanStart == ops < budget /\ InFlight < MaxInFlight

\* ------------------------------------------------ effects of a re-render
Range(q) == {q[i] : i \in DOMAIN q}

cap(q, n) == IF Len(q) > n THEN SubSeq(q, 1, n) ELSE q

\* a purge that filters the two lists and leaves the tag maps alone
purge_keepsTags(d) ==
  [recentBlocks |-> SelectSeq(d.recentBlocks, LAMBDA b : d.blockModes[b.hash] # "local"),
   recentTransactions |-> SelectSeq(d.recentTransactions, LAMBDA h : d.txModes[h] # "local"),
   blockModes |-> d.blockModes,
   txModes |-> d.txModes]

\* the purge effect of live mode, on the dashboard d it is rendered with
purge(d) ==
  [recentBlocks |-> SelectSeq(d.recentBlocks, LAMBDA b : d.blockModes[b.hash] # "local"),
   recentTransactions |-> SelectSeq(d.recentTransactions, LAMBDA h : d.txModes[h] # "local"),
   blockModes |-> [h \in DOMAIN d.blockModes |->
                     IF d.blockModes[h] = "local" THEN "none" ELSE d.blockModes[h]],
   txModes |-> [h \in DOMAIN d.txModes |->
                  IF d.txModes[h] = "local" THEN "none" ELSE d.txModes[h]]]

\* what a purge of d drops: listed entries and tags
dropped(d) ==
  {h \in DOMAIN d.blockModes : d.blockModes[h] = "local"}
    \cup {h \in DOMAIN d.txModes : d.txModes[h] = "local"}

dashboard ==
  [recentBlocks |-> recentBlocks, recentTransactions |-> recentTransactions,
   blockModes |-> blockModes, txModes |-> txModes]

\* the dashboard after the effects of a render with mode m and dashboard d;
\* rerun: the dependencies of the purge effect changed.  In live mode the
\* effect ends with setTxModes and setBlockModes, whose updaters return a new
\* object each time; in local mode it returns before any update
render(m, d, rerun) ==
  LET e == IF m = "live" /\ rerun THEN purge(d) ELSE d IN
  /\ recentBlocks' = e.recentBlocks
  /\ recentTransactions' = e.recentTransactions
  /\ blockModes' = e.blockModes
  /\ txModes' = e.txModes
  /\ purged' = IF m = "live" /\ rerun THEN dropped(d) ELSE purged
  /\ purgeDue' = IF rerun THEN m = "live" ELSE purgeDue
  /\ UNCHANGED purgeRuns

\* a mounted component whose effect calls ensureLocalClients in local mode:
\* App with the explorer view, a ContractDetailsTab in the contracts view
wantsClients(m, view, tbs) ==
  /\ m = "local"
  /\ \/ view = "explorer"
     \/ view = "contracts" /\ \E t \in tbs : t.type = "details"

\* the flows after those effects ran: without a client pair the call goes on
\* to startLocalFork
runEffects(fl, m, view, tbs, clients) ==
  IF wantsClients(m, view, tbs) /\ clients = NoId /\ fl[EffectsId].pc = "idle"
  THEN [fl EXCEPT ![EffectsId] = [IdleFlow EXCEPT !.pc = "starting", !.mode = "local"]]
  ELSE fl

\* ------------------------------------------------- mode toggle (operator)
\* the persist effect, run after a render that changed one of its dependencies
persist ==
  storage' = IF hasLoadedSettings' THEN [r \in Runs |-> settingsItem(r)'] ELSE storage

SetGlobalMode(m) ==
  /\ m # globalMode
  /\ ops < budget
  /\ ops' = ops + 1
  /\ globalMode' = m
  /\ render(m, dashboard, TRUE)
  /\ flow' = runEffects(flow, m, activeView, tabs, localClients)
  /\ UNCHANGED <<traceVars, convVars, activeView, tabs, poll,
                 localForkStatus, snapshots, activeSnapshotId, now, nextLocalId, lastStamp,
                 envVars, stopPc, probe, budget, privateKey, localForkBlock, hasLoadedSettings>>
  /\ persist
  /\ UNCHANGED shownVars
  /\ detailsEffect

\* ------------------------------------------------ handler control points

\* a pre-state snapshot for every local request on an empty stack, reads included
needsPre_readsToo(r) == r.mode = "local" /\ r.count = 0 /\ r.path # "rawSend"

\* a mutating local execution takes the synthetic pre-state snapshot when the
\* snapshotsCount prop it was rendered with is 0; the raw eth_sendTransaction
\* branch of RequestTab has no such block
needsPre(r) ==
  r.mode = "local" /\ r.count = 0 /\ r.path \notin {"rawSend"} \cup ReadPaths

\* after the receipt every branch records a snapshot, except the raw
\* eth_sendTransaction branch, which does so only when snapshotsCount is 0
needsPost(r) ==
  r.mode = "local" /\ r.path \notin ReadPaths /\ (r.path # "rawSend" \/ r.count = 0)

\* where a flow continues once it holds its clients
afterClients(f, r) ==
  IF f = EffectsId THEN "idle"
  ELSE IF f = RevertId THEN "reverting"
  ELSE IF needsPre(r) THEN "preSnap" ELSE "submit"

\* a catch block that forgets the pending snapshot
catchPatch_unmarked(snaps, r) == snaps

\* catch block: flag the failure, mark the pending snapshot as error
catchPatch(snaps, r) ==
  IF r.pending # NoId THEN updateSnapshot(snaps, r.pending, [status |-> "error"]) ELSE snaps

\* the handler returns: its locals (clients, snapshotsCount, snapshot id in
\* flight) are gone, the component state it wrote stays
Finished(r) ==
  [r EXCEPT !.pc = "idle", !.loading = FALSE, !.path = "none", !.count = 0,
            !.port = NoId, !.snapId = NoId, !.preBlock = NoId]

\* lastExecutionHadErrorRef exists in RequestTab only
Catch(f, msg) ==
  /\ flow' = [flow EXCEPT ![f] = Finished([@ EXCEPT !.error = msg,
                                                    !.hadError = (f = RequestTabId),
                                                    !.pending = NoId])]
  /\ snapshots' = catchPatch(snapshots, flow[f])

\* handleExecute / handleSendEth up to the first await
Execute(t, p) ==
  /\ flow[t].pc = "idle"
  /\ CanStart
  /\ ops' = ops + 1
  /\ LET r0 == [flow[t] EXCEPT !.path = p, !.mode = globalMode, !.count = Len(snapshots),
                              !.req = ops + 1, !.hash = NoId, !.block = NoId,
                              !.error = "none", !.hadError = FALSE, !.loading = TRUE,
                              !.snapId = NoId, !.preBlock = NoId, !.port = NoId]
     IN flow' = [flow EXCEPT ![t] =
          IF globalMode = "local"
          THEN IF localClients # NoId
               THEN [r0 EXCEPT !.port = localClients, !.pc = afterClients(t, r0)]
               ELSE [r0 EXCEPT !.pc = "starting"]
          ELSE [r0 EXCEPT !.pc = "submit"]]
  /\ UNCHANGED <<extVars, appVars, envVars, stopPc, probe, budget>>
  /\ detailsEffect

\* startLocalFork: POST /fork/start reaches the service
StartRequest(f) ==
  /\ flow[f].pc = "starting"
  /\ startCount' = startCount + 1
  /\ \/ UNCHANGED <<svc, chain, nodeSnaps>>
     \/ /\ ~svc.running
        /\ \E p \in Ports : svc' = [running |-> TRUE, port |-> p]
        /\ chain' = <<>>
        /\ nodeSnaps' = <<>>
  /\ flow' = [flow EXCEPT ![f].pc = "status"]
  /\ UNCHANGED <<extVars, appVars, nextSnapId, stopPc, probe, cntVars>>
  /\ detailsEffect

\* a startLocalFork that returns the fork URL whatever the status says
StartStatus_unchecked(f) ==
  /\ flow[f].pc = "status"
  /\ localForkStatus' = [running |-> TRUE, port |-> svc.port]
  /\ flow' = [flow EXCEPT ![f] = [@ EXCEPT !.port = svc.port,
                                          !.pc = afterClients(f, flow[f])]]
  /\ UNCHANGED <<extVars, globalMode, snapshots, activeSnapshotId, now, nextLocalId, lastStamp, envVars, stopPc, probe, cntVars>>
  /\ detailsEffect

\* startLocalFork: GET /fork/status answered; without running and port it
\* throws "Failed to start local fork"
StartStatus(f) ==
  /\ flow[f].pc = "status"
  /\ IF svc.running /\ svc.port # NoId
     THEN /\ localForkStatus' = [running |-> TRUE, port |-> svc.port]
          /\ flow' = [flow EXCEPT ![f] = [@ EXCEPT !.port = svc.port,
                                                  !.pc = afterClients(f, flow[f])]]
          /\ UNCHANGED snapshots
     ELSE /\ Catch(f, "start")
          /\ UNCHANGED localForkStatus
  /\ UNCHANGED <<extVars, globalMode, activeSnapshotId, now, nextLocalId, lastStamp, envVars, stopPc, probe, cntVars>>
  /\ detailsEffect

\* startLocalFork: one of its two fetches rejects
StartFail(f) ==
  /\ flow[f].pc \in {"starting", "status"}
  /\ Catch(f, "transport")
  /\ UNCHANGED <<extVars, globalMode, localForkStatus, activeSnapshotId, now, nextLocalId, lastStamp,
                 envVars, stopPc, probe, cntVars>>
  /\ detailsEffect

\* createSnapshotEntry, first half: evm_snapshot reaches the node, which
\* captures a checkpoint of its current chain (the synthetic pre-state capture
\* reads the block number just before)
SnapshotRequest(t) ==
  /\ flow[t].pc \in {"preSnap", "postSnap"}
  /\ svc.running
  /\ nodeSnaps' = [i \in (DOMAIN nodeSnaps) \cup {nextSnapId} |->
                     IF i = nextSnapId THEN Len(chain) ELSE nodeSnaps[i]]
  /\ nextSnapId' = nextSnapId + 1
  /\ flow' = [flow EXCEPT ![t] = [@ EXCEPT !.snapId = nextSnapId,
                                          !.preBlock = blockNumber(chain),
                                          !.pc = IF @ = "preSnap" THEN "preRecord" ELSE "postRecord"]]
  /\ UNCHANGED <<extVars, appVars, svc, startCount, chain, stopPc, probe, cntVars>>
  /\ detailsEffect

\* getBlockNumber or evm_snapshot rejects
SnapshotFail(t) ==
  /\ flow[t].pc \in {"preSnap", "postSnap"}
  /\ Catch(t, "snapshot")
  /\ UNCHANGED <<extVars, globalMode, localForkStatus, activeSnapshotId, now, nextLocalId, lastStamp,
                 envVars, stopPc, probe, cntVars>>
  /\ detailsEffect

\* the patch createSnapshotEntry applies right after onSnapshotCreated
entryPatch(r) ==
  IF r.pc = "preRecord"
  THEN [status |-> "confirmed", blockNumber |-> r.preBlock]
  ELSE [status |-> "confirmed", txHash |-> r.hash, blockNumber |-> r.block]

\* values Date.now() can return after it returned n: a later millisecond, or
\* the same one when the previous reading was made for another request (two
\* readings for one request are several network round trips apart)
clockAfter(n, sameRequest) == IF sameRequest THEN {n + 1} ELSE {n, n + 1}

\* createSnapshotEntry, second half: the snapshot id arrives; addSnapshot,
\* pendingSnapshotIdRef and updateSnapshot run without suspension.  After the
\* post-receipt capture the handler clears pendingSnapshotIdRef and returns.
SnapshotRecord(t) ==
  /\ flow[t].pc \in {"preRecord", "postRecord"}
  /\ \E ts \in clockAfter(now, lastStamp = flow[t].req) :
       /\ now' = ts
       /\ lastStamp' = flow[t].req
       /\ snapshots' = updateSnapshot(
                         addSnapshot(snapshots, nextLocalId, flow[t].snapId, flow[t].req, ts),
                         nextLocalId, entryPatch(flow[t]))
  /\ activeSnapshotId' = flow[t].snapId
  /\ nextLocalId' = nextLocalId + 1
  /\ flow' = [flow EXCEPT ![t] =
       IF @.pc = "preRecord"
       THEN [@ EXCEPT !.pending = nextLocalId, !.snapId = NoId, !.pc = "submit"]
       ELSE Finished([@ EXCEPT !.pending = NoId])]
  /\ UNCHANGED <<extVars, globalMode, localForkStatus, envVars, stopPc, probe, cntVars>>
  /\ detailsEffect

\* the transaction is sent; the fork node mines it at once and returns its hash
Submit(t) ==
  /\ flow[t].pc = "submit" /\ flow[t].path \notin ReadPaths
  /\ IF flow[t].mode = "local"
     THEN /\ svc.running
          /\ chain' = Append(chain, flow[t].req)
     ELSE UNCHANGED chain
  /\ flow' = [flow EXCEPT ![t] = [@ EXCEPT !.hash = flow[t].req, !.pc = "receipt"]]
  /\ UNCHANGED <<extVars, appVars, svc, startCount, nodeSnaps, nextSnapId, stopPc, probe, cntVars>>
  /\ detailsEffect

\* readContract or eth_call answers: the result is shown, nothing is mined
Call(t) ==
  /\ flow[t].pc = "submit" /\ flow[t].path \in ReadPaths
  /\ flow[t].mode = "local" => svc.running
  /\ flow' = [flow EXCEPT ![t] = Finished(@)]
  /\ UNCHANGED <<extVars, appVars, envVars, stopPc, probe, cntVars>>
  /\ detailsEffect

\* the submission rejects: nothing is mined
SubmitFail(t) ==
  /\ flow[t].pc = "submit"
  /\ Catch(t, "submit")
  /\ UNCHANGED <<extVars, globalMode, localForkStatus, activeSnapshotId, now, nextLocalId, lastStamp,
                 envVars, stopPc, probe, cntVars>>
  /\ detailsEffect

\* waitForTransactionReceipt and getTransaction answer
Receipt(t) ==
  /\ flow[t].pc = "receipt"
  /\ flow[t].mode = "local" => svc.running /\ mined(chain, flow[t].hash)
  /\ LET r == flow[t]
         b == IF r.mode = "local" THEN blockOf(chain, r.hash) ELSE 1
     IN flow' = [flow EXCEPT ![t] =
          IF needsPost(r)
          THEN [r EXCEPT !.block = b, !.pc = "postSnap"]
          ELSE Finished([r EXCEPT !.block = b, !.pending = NoId])]
  /\ UNCHANGED <<extVars, appVars, envVars, stopPc, probe, cntVars>>
  /\ detailsEffect

\* waiting for the receipt rejects
ReceiptFail(t) ==
  /\ flow[t].pc = "receipt"
  /\ Catch(t, "receipt")
  /\ UNCHANGED <<extVars, globalMode, localForkStatus, activeSnapshotId, now, nextLocalId, lastStamp,
                 envVars, stopPc, probe, cntVars>>
  /\ detailsEffect

\* ------------------------------------------------------- revertSnapshot
\* the operator presses Revert on a listed snapshot
RevertStart(sid) ==
  /\ flow[RevertId].pc = "idle"
  /\ CanStart
  /\ \E i \in DOMAIN snapshots : snapshots[i].snapshotId = sid
  /\ ops' = ops + 1
  /\ flow' = [flow EXCEPT ![RevertId] =
       [@ EXCEPT !.target = sid, !.error = "none", !.hadError = FALSE,
                 !.port = localClients,
                 !.pc = IF localClients # NoId THEN "reverting" ELSE "starting"]]
  /\ UNCHANGED <<extVars, appVars, envVars, stopPc, probe, budget>>
  /\ detailsEffect

\* evm_revert reaches the node: a known checkpoint is restored and consumed
\* together with the later ones, an unknown id is answered with false
nodeRevert(c, sid) ==
  IF sid \in DOMAIN nodeSnaps THEN SubSeq(c, 1, nodeSnaps[sid]) ELSE c

RevertRequest ==
  /\ flow[RevertId].pc = "reverting"
  /\ svc.running
  /\ chain' = nodeRevert(chain, flow[RevertId].target)
  /\ nodeSnaps' = [i \in {j \in DOMAIN nodeSnaps : j < flow[RevertId].target} |-> nodeSnaps[i]]
  /\ flow' = [flow EXCEPT ![RevertId].pc = "reverted"]
  /\ UNCHANGED <<extVars, appVars, svc, startCount, nextSnapId, stopPc, probe, cntVars>>
  /\ detailsEffect

\* a catch block that moves the head to the target all the same
RevertFail_movesHead ==
  /\ flow[RevertId].pc = "reverting"
  /\ Catch(RevertId, "revert")
  /\ activeSnapshotId' = flow[RevertId].target
  /\ UNCHANGED <<extVars, globalMode, localForkStatus, now, nextLocalId, lastStamp,
                 envVars, stopPc, probe, cntVars>>
  /\ detailsEffect

\* testClient.revert rejects: the catch block only raises the error toast
RevertFail ==
  /\ flow[RevertId].pc = "reverting"
  /\ Catch(RevertId, "revert")
  /\ UNCHANGED <<extVars, globalMode, localForkStatus, activeSnapshotId, now, nextLocalId, lastStamp,
                 envVars, stopPc, probe, cntVars>>
  /\ detailsEffect

\* testClient.revert resolved: head and list are updated
RevertCommit ==
  /\ flow[RevertId].pc = "reverted"
  /\ activeSnapshotId' = flow[RevertId].target
  /\ snapshots' = truncate(snapshots, flow[RevertId].target)
  /\ flow' = [flow EXCEPT ![RevertId] = Finished(@)]
  /\ UNCHANGED <<extVars, globalMode, localForkStatus, now, nextLocalId, lastStamp, envVars, stopPc, probe, cntVars>>
  /\ detailsEffect

\* -------------------------------------------------------- stopLocalFork
\* POST /fork/stop is answered: acknowledged, or an error response
StopRequest ==
  /\ stopPc # "stopping"
  /\ localForkStatus.running
  /\ CanStart
  /\ ops' = ops + 1
  /\ \/ svc' = Stopped
     \/ UNCHANGED svc
  /\ stopPc' = "stopping"
  /\ UNCHANGED <<extVars, appVars, startCount, chain, nodeSnaps, nextSnapId, flow, probe, budget>>
  /\ detailsEffect

\* POST /fork/stop rejects (transport failure): the rest of stopLocalFork is skipped
StopTransportFail ==
  /\ stopPc # "stopping"
  /\ localForkStatus.running
  /\ CanStart
  /\ ops' = ops + 1
  /\ stopPc' = "rejected"
  /\ UNCHANGED <<extVars, appVars, envVars, flow, probe, budget>>
  /\ detailsEffect

\* the three state updates after the awaited fetch
StopCommit ==
  /\ stopPc = "stopping"
  /\ localForkStatus' = Stopped
  /\ snapshots' = <<>>
  /\ activeSnapshotId' = NoId
  /\ stopPc' = "idle"
  /\ UNCHANGED <<extVars, globalMode, now, nextLocalId, lastStamp, envVars, flow, probe, cntVars>>
  /\ detailsEffect

\* ------------------------------------------------------ fetchForkStatus
ProbeRequest ==
  /\ probe.pc = "idle"
  /\ CanStart
  /\ ops' = ops + 1
  /\ \/ probe' = [pc |-> "inflight", running |-> svc.running, port |-> svc.port]
     \/ probe' = [pc |-> "failed", running |-> FALSE, port |-> NoId]
  /\ UNCHANGED <<extVars, appVars, envVars, flow, stopPc, budget>>
  /\ detailsEffect

\* a probe that leaves the session as it was when the fetch rejects
ProbeResponse_keepsOnFailure ==
  /\ probe.pc # "idle"
  /\ localForkStatus' =
       IF probe.pc = "failed" THEN localForkStatus
       ELSE IF probe.running /\ probe.port # NoId
       THEN [running |-> TRUE, port |-> probe.port]
       ELSE Stopped
  /\ probe' = [pc |-> "idle", running |-> FALSE, port |-> NoId]
  /\ UNCHANGED <<extVars, globalMode, snapshots, activeSnapshotId, now, nextLocalId, lastStamp,
                 envVars, flow, stopPc, cntVars>>
  /\ detailsEffect

\* the response (or the rejection) of fetchForkStatus is handled
ProbeResponse ==
  /\ probe.pc # "idle"
  /\ localForkStatus' =
       IF probe.pc = "inflight" /\ probe.running /\ probe.port # NoId
       THEN [running |-> TRUE, port |-> probe.port]
       ELSE Stopped
  /\ probe' = [pc |-> "idle", running |-> FALSE, port |-> NoId]
  /\ UNCHANGED <<extVars, globalMode, snapshots, activeSnapshotId, now, nextLocalId, lastStamp,
                 envVars, flow, stopPc, cntVars>>
  /\ detailsEffect

\* ------------------------------------------------------------------ Next
Next ==
  \/ \E m \in {"live", "local"} : SetGlobalMode(m)
  \/ \E t \in Tabs : \E p \in PathsOf(t) : Execute(t, p)
  \/ \E f \in Flows : StartRequest(f)
  \/ \E f \in Flows : StartStatus(f)
  \/ \E f \in Flows : StartFail(f)
  \/ \E t \in Tabs : SnapshotRequest(t)
  \/ \E t \in Tabs : SnapshotFail(t)
  \/ \E t \in Tabs : SnapshotRecord(t)
  \/ \E t \in Tabs : Submit(t)
  \/ \E t \in Tabs : SubmitFail(t)
  \/ \E t \in Tabs : Receipt(t)
  \/ \E t \in Tabs : ReceiptFail(t)
  \/ \E sid \in 1..(nextSnapId - 1) : RevertStart(sid)
  \/ RevertRequest
  \/ RevertFail
  \/ RevertCommit
  \/ StopRequest
  \/ StopTransportFail
  \/ StopCommit
  \/ ProbeRequest
  \/ ProbeResponse

Spec == Init /\ [][Next]_vars

\* the same runs with the reads of RequestTab among the executions
NextCalls ==
  \/ Next
  \/ \E p \in ReadPaths : Execute(RequestTabId, p)
  \/ Call(RequestTabId)

SpecCalls == Init /\ [][NextCalls]_vars

SpecDeep == InitDeep /\ [][Next]_vars

\* ======================================================== trace pipeline
\* Execution as the response panel sees it (hash, error, last call) and
\* fetchTrace of both tabs.  ensureLocalClients and the submission are taken
\* in one step, as are the receipt and the finally block.

\* the state and props fetchTrace reads when it is called from the current render
traceView(t) ==
  [response |-> tr[t].response, lastTxHash |-> tr[t].lastTxHash, error |-> tr[t].error,
   lastExecutionMode |-> tr[t].lastExecutionMode, lastCallParams |-> tr[t].lastCallParams,
   globalMode |-> globalMode, localClients |-> localClients, rpcUrl |-> rpcUrl,
   auto |-> tr[t].viewMode = "trace", call |-> NoId]

\* canTrace of RequestTab (a state-changing function); the Trace button of
\* ContractDetailsTab is rendered when the response has a hash
canTrace(t) ==
  IF t = RequestTabId
  THEN tr[t].response # NoId \/ tr[t].lastTxHash # NoId \/ tr[t].lastCallParams # NoId \/ tr[t].error
  ELSE tr[t].response # NoId

\* mode fetchTrace resolves its endpoint with
traceMode(t, v) ==
  IF t = RequestTabId /\ v.lastExecutionMode # "none" THEN v.lastExecutionMode ELSE v.globalMode

\* response?.transactionHash || response?.hash || lastTxHash
knownHash(v) == IF v.response # NoId THEN v.response ELSE v.lastTxHash

\* fetchTrace reaches `localClients ?? (await ensureLocalClients())` without clients
traceNeedsStart(t, v) ==
  /\ traceMode(t, v) = "local"
  /\ v.localClients = NoId
  /\ t = DetailsTabId => v.response # NoId

\* fetchTrace: the request it sends, for the view v it runs with, the
\* arguments it was called with and the port ensureLocalClients resolved
fetchTrace(t, v, forced, forceError, override, ensured) ==
  LET hadError == IF forced THEN forceError ELSE v.error
      effective == IF override # NoId THEN override ELSE v.lastCallParams
      endpoint == IF traceMode(t, v) = "local"
                  THEN forkRpc(IF v.localClients # NoId THEN v.localClients ELSE ensured)
                  ELSE v.rpcUrl
      byHash(h) == [kind |-> "hash", endpoint |-> endpoint, hash |-> h, call |-> NoId,
                    blockTag |-> "none"]
      unavailable == [kind |-> "unavailable", endpoint |-> NoEndpoint, hash |-> NoId,
                      call |-> NoId, blockTag |-> "none"]
  IN IF t = DetailsTabId
     THEN IF v.response = NoId THEN unavailable ELSE byHash(v.response)
     ELSE IF ~hadError
          THEN IF knownHash(v) = NoId THEN unavailable ELSE byHash(knownHash(v))
          ELSE IF effective = NoId THEN unavailable
               ELSE [kind |-> "call", endpoint |-> endpoint, hash |-> NoId,
                     call |-> effective, blockTag |-> "latest"]

\* the request is sent: it becomes the tab's last trace request
sent(t, q) ==
  [k \in DOMAIN NoRequest |-> IF k = "n" THEN traceReq[t].n + 1 ELSE q[k]]

\* ensureLocalClients with no client pair: startLocalFork, after which the
\* service runs on port p unless it was running already
startedSvc(p) == IF svc.running THEN svc ELSE [running |-> TRUE, port |-> p]

\* the effect of that start on the service and on App
ensureStarts(need, p) ==
  IF need
  THEN /\ startCount' = startCount + 1
       /\ svc' = startedSvc(p)
       /\ localForkStatus' = startedSvc(p)
  ELSE UNCHANGED <<startCount, svc, localForkStatus>>

\* handleExecute / handleSendEth up to the first await, as the panel sees it
TraceExecute(t) ==
  /\ tr[t].pc = "idle"
  /\ ops < budget
  /\ ops' = ops + 1
  /\ tr' = [tr EXCEPT ![t] =
       [@ EXCEPT !.pc = "dispatch", !.response = NoId, !.lastTxHash = NoId, !.error = FALSE,
                 !.lastExecutionMode = IF t = RequestTabId THEN globalMode ELSE "none",
                 !.lastCallParams = IF t = RequestTabId THEN ops + 1 ELSE NoId,
                 !.hadErrorRef = FALSE, !.dispatched = NoEndpoint,
                 !.cl = [traceView(t) EXCEPT !.call = ops + 1,
                                             !.auto = (t = RequestTabId /\ tr[t].viewMode = "trace")]]]
  /\ UNCHANGED <<shownVars, settingsVars, convVars, modeVars, appVars, envVars, flow, stopPc, probe, budget, rpcUrl, traceReq>>
  /\ detailsEffect

\* the clients are there and the submission returns its hash
TraceDispatch(t) ==
  /\ tr[t].pc = "dispatch"
  /\ LET c == tr[t].cl IN
     \E p \in TracePorts :
       LET need == c.globalMode = "local" /\ c.localClients = NoId
           port == IF c.localClients # NoId THEN c.localClients ELSE startedSvc(p).port
           target == IF c.globalMode = "local" THEN forkRpc(port) ELSE c.rpcUrl
       IN /\ (c.globalMode = "local" /\ ~need) => (svc.running /\ svc.port = port)
          /\ ensureStarts(need, p)
          /\ tr' = [tr EXCEPT ![t] =
               [@ EXCEPT !.pc = "receipt", !.response = c.call, !.lastTxHash = c.call,
                         !.dispatched = target]]
  /\ UNCHANGED <<shownVars, settingsVars, convVars, modeVars, globalMode, snapshots, activeSnapshotId, now, nextLocalId, lastStamp,
                 chain, nodeSnaps, nextSnapId, flow, stopPc, probe, cntVars, rpcUrl, traceReq>>
  /\ detailsEffect

\* the finally block: with the trace view open when the execution was
\* started, fetchTrace of that render is called
autoTrace(t, hadError, ensured) ==
  LET c == tr[t].cl IN
  IF c.auto THEN sent(t, fetchTrace(t, c, TRUE, hadError, c.call, ensured)) ELSE traceReq[t]

\* catch and finally of an execution that failed
traceFailed(t, r) ==
  [r EXCEPT !.pc = "idle", !.error = TRUE, !.hadErrorRef = (t = RequestTabId),
            !.viewMode = IF r.cl.auto THEN "trace" ELSE @, !.cl = NoClosure]

\* ensureLocalClients or the submission rejects
TraceDispatchFail(t) ==
  /\ tr[t].pc = "dispatch"
  /\ \E p \in TracePorts :
       LET need == tr[t].cl.auto /\ traceNeedsStart(t, tr[t].cl) IN
       /\ ensureStarts(need, p)
       /\ traceReq' = [traceReq EXCEPT ![t] = autoTrace(t, TRUE, startedSvc(p).port)]
  /\ tr' = [tr EXCEPT ![t] = traceFailed(t, @)]
  /\ UNCHANGED <<shownVars, settingsVars, convVars, modeVars, globalMode, snapshots, activeSnapshotId, now, nextLocalId, lastStamp,
                 chain, nodeSnaps, nextSnapId, flow, stopPc, probe, cntVars, rpcUrl>>
  /\ detailsEffect

\* the receipt arrives; finally
TraceReceipt(t) ==
  /\ tr[t].pc = "receipt"
  /\ \E p \in TracePorts :
       LET need == tr[t].cl.auto /\ traceNeedsStart(t, tr[t].cl) IN
       /\ ensureStarts(need, p)
       /\ traceReq' = [traceReq EXCEPT ![t] = autoTrace(t, FALSE, startedSvc(p).port)]
  /\ tr' = [tr EXCEPT ![t] =
       [@ EXCEPT !.pc = "idle", !.viewMode = IF tr[t].cl.auto THEN "trace" ELSE @,
                 !.cl = NoClosure]]
  /\ UNCHANGED <<shownVars, settingsVars, convVars, modeVars, globalMode, snapshots, activeSnapshotId, now, nextLocalId, lastStamp,
                 chain, nodeSnaps, nextSnapId, flow, stopPc, probe, cntVars, rpcUrl>>
  /\ detailsEffect

\* waiting for the receipt rejects; catch and finally
TraceReceiptFail(t) ==
  /\ tr[t].pc = "receipt"
  /\ \E p \in TracePorts :
       LET need == tr[t].cl.auto /\ traceNeedsStart(t, tr[t].cl) IN
       /\ ensureStarts(need, p)
       /\ traceReq' = [traceReq EXCEPT ![t] = autoTrace(t, TRUE, startedSvc(p).port)]
  /\ tr' = [tr EXCEPT ![t] = traceFailed(t, @)]
  /\ UNCHANGED <<shownVars, settingsVars, convVars, modeVars, globalMode, snapshots, activeSnapshotId, now, nextLocalId, lastStamp,
                 chain, nodeSnaps, nextSnapId, flow, stopPc, probe, cntVars, rpcUrl>>
  /\ detailsEffect

\* the operator presses Trace
TraceClick(t) ==
  /\ canTrace(t)
  /\ ops < budget
  /\ ops' = ops + 1
  /\ \E p \in TracePorts :
       /\ ensureStarts(traceNeedsStart(t, traceView(t)), p)
       /\ traceReq' = [traceReq EXCEPT ![t] =
            sent(t, fetchTrace(t, traceView(t), FALSE, FALSE, NoId, startedSvc(p).port))]
  /\ tr' = [tr EXCEPT ![t].viewMode = "trace"]
  /\ UNCHANGED <<shownVars, settingsVars, convVars, modeVars, globalMode, snapshots, activeSnapshotId, now, nextLocalId, lastStamp,
                 chain, nodeSnaps, nextSnapId, flow, stopPc, probe, budget, rpcUrl>>
  /\ detailsEffect

\* handleExecute of a deploy tab in "At Address" mode: the contract is
\* attached, nothing is submitted, the handler returns through finally
TraceAttach(t) ==
  /\ t = RequestTabId
  /\ tr[t].pc = "idle"
  /\ ops < budget
  /\ ops' = ops + 1
  /\ LET c == [traceView(t) EXCEPT !.call = ops + 1] IN
     \E p \in TracePorts :
       /\ ensureStarts(c.auto /\ traceNeedsStart(t, c), p)
       /\ traceReq' = [traceReq EXCEPT ![t] =
            IF c.auto THEN sent(t, fetchTrace(t, c, TRUE, FALSE, c.call, startedSvc(p).port))
            ELSE @]
  /\ tr' = [tr EXCEPT ![t] =
       [@ EXCEPT !.response = NoId, !.lastTxHash = NoId, !.error = FALSE,
                 !.lastExecutionMode = globalMode, !.lastCallParams = ops + 1,
                 !.hadErrorRef = FALSE, !.dispatched = NoEndpoint]]
  /\ UNCHANGED <<shownVars, settingsVars, convVars, modeVars, globalMode, snapshots, activeSnapshotId, now, nextLocalId, lastStamp,
                 chain, nodeSnaps, nextSnapId, flow, stopPc, probe, budget, rpcUrl>>
  /\ detailsEffect

\* UserProfile onUpdateSettings: the operator saves the settings dialog
onUpdateSettings(newRpc, newKey) ==
  /\ newRpc # rpcUrl \/ newKey # privateKey
  /\ ops < budget
  /\ ops' = ops + 1
  /\ rpcUrl' = newRpc
  /\ privateKey' = newKey
  /\ UNCHANGED <<convVars, modeVars, appVars, envVars, flow, stopPc, probe, budget, tr, traceReq,
                 localForkBlock, hasLoadedSettings>>
  /\ persist
  /\ UNCHANGED shownVars
  /\ detailsEffect

\* the operator saves another live RPC URL in the settings
UpdateSettings(u) == onUpdateSettings(u, privateKey)

NextTrace ==
  \/ \E m \in {"live", "local"} : SetGlobalMode(m)
  \/ \E u \in LiveUrls : UpdateSettings(u)
  \/ \E t \in Tabs : TraceExecute(t)
  \/ \E t \in Tabs : TraceDispatch(t)
  \/ \E t \in Tabs : TraceDispatchFail(t)
  \/ \E t \in Tabs : TraceReceipt(t)
  \/ \E t \in Tabs : TraceReceiptFail(t)
  \/ \E t \in Tabs : TraceClick(t)
  \/ \E t \in Tabs : TraceAttach(t)
  \/ StopRequest
  \/ StopCommit

InitTrace == InitApp /\ ExtIdle /\ budget = MaxTraceOps

SpecTrace == InitTrace /\ [][NextTrace]_vars

\* ================================================= form / raw translation
FormValues == {EmptyStr, Str(0, 0), Str(1, 0), Str(15, 1)}      \* "", "0", "1", "1.5"
GasLimits == {EmptyStr, Str(21, -3), Str(15, 1)}                \* "", "21000", "1.5"
InputValues == {Str(5, 0), Str(15, 1)}                          \* "5", "1.5"
ValueUnits == {"wei", "gwei", "ether"}
AbiItems ==
  {ViewFunction,
   [type |-> "function", view |-> FALSE, payable |-> TRUE],
   [type |-> "deploy", view |-> FALSE, payable |-> TRUE]}

\* envelopes the operator may type into the raw editor
RawValues == {NoHex, Hex(Zero), [present |-> TRUE, amt |-> canon(1, 18), lead |-> TRUE]}
RawGas == {NoHex, Hex(canon(21000, 0))}
RawData == {[fn |-> "fn", arg |-> canon(5, 0)], Bytecode}
RawInputs ==
  {[method |-> m, to |-> t, from |-> "account", data |-> d, value |-> v, gas |-> g,
    tag |-> IF m = "eth_call" THEN "latest" ELSE ""] :
     m \in {"eth_call", "eth_sendTransaction"}, t \in {"contract", "other"},
     d \in RawData, v \in RawValues, g \in RawGas}

coreVars == <<appVars, envVars, flow, stopPc, probe, cntVars>>

\* the Value input (enabled for payable items only)
SetValue(v) ==
  /\ requestViewMode = "form" /\ abiItem.payable
  /\ v # form.value
  /\ form' = [form EXCEPT !.value = v]
  /\ rawJsonInput' = syncRaw(rawJsonInput, form', abiItem, requestViewMode)
  /\ UNCHANGED <<shownVars, settingsVars, coreVars, traceVars, modeVars, abiItem, requestViewMode, rawEdited>>
  /\ detailsEffect

\* the Gas Limit input
SetGasLimit(g) ==
  /\ requestViewMode = "form"
  /\ g # form.gasLimit
  /\ form' = [form EXCEPT !.gasLimit = g]
  /\ rawJsonInput' = syncRaw(rawJsonInput, form', abiItem, requestViewMode)
  /\ UNCHANGED <<shownVars, settingsVars, coreVars, traceVars, modeVars, abiItem, requestViewMode, rawEdited>>
  /\ detailsEffect

\* an argument input
SetInputs(x) ==
  /\ requestViewMode = "form"
  /\ x # form.input
  /\ form' = [form EXCEPT !.input = x]
  /\ rawJsonInput' = syncRaw(rawJsonInput, form', abiItem, requestViewMode)
  /\ UNCHANGED <<shownVars, settingsVars, coreVars, traceVars, modeVars, abiItem, requestViewMode, rawEdited>>
  /\ detailsEffect

\* handleUnitChange: the value is re-expressed in the new unit
handleUnitChange(u) ==
  /\ requestViewMode = "form" /\ abiItem.payable
  /\ u # form.valueUnit
  /\ form' = IF form.value.empty THEN [form EXCEPT !.valueUnit = u]
             ELSE [form EXCEPT !.valueUnit = u,
                               !.value = formatUnits(getValueInWei(form), unitDecimals(u))]
  /\ rawJsonInput' = syncRaw(rawJsonInput, form', abiItem, requestViewMode)
  /\ UNCHANGED <<shownVars, settingsVars, coreVars, traceVars, modeVars, abiItem, requestViewMode, rawEdited>>
  /\ detailsEffect

\* the operator types an envelope into the raw editor
SetRawJsonInput(e) ==
  /\ requestViewMode = "rpc"
  /\ e # rawJsonInput
  /\ rawJsonInput' = e
  /\ rawEdited' = TRUE
  /\ UNCHANGED <<shownVars, settingsVars, coreVars, traceVars, modeVars, abiItem, form, requestViewMode>>
  /\ detailsEffect

\* handleViewSwitch, and the effect that follows the re-render
handleViewSwitch(mode) ==
  /\ mode # requestViewMode
  /\ form' = IF mode = "form" THEN fromRaw(form, abiItem, rawJsonInput) ELSE form
  /\ requestViewMode' = mode
  /\ rawJsonInput' = syncRaw(rawJsonInput, form', abiItem, mode)
  /\ rawEdited' = IF mode = "rpc" THEN FALSE ELSE rawEdited
  /\ UNCHANGED <<shownVars, settingsVars, coreVars, traceVars, modeVars, abiItem>>
  /\ detailsEffect

NextConv ==
  \/ \E v \in FormValues : SetValue(v)
  \/ \E g \in GasLimits : SetGasLimit(g)
  \/ \E x \in InputValues : SetInputs(x)
  \/ \E u \in ValueUnits : handleUnitChange(u)
  \/ \E e \in RawInputs : SetRawJsonInput(e)
  \/ \E mode \in {"form", "rpc"} : handleViewSwitch(mode)

InitConv ==
  /\ InitApp /\ globalMode = "live" /\ TraceIdle /\ ModeIdle /\ SettingsIdle /\ ReadIdle /\ budget = 0
  /\ abiItem \in AbiItems
  /\ form = InitialForm
  /\ rawJsonInput = generateRawJson(InitialForm, abiItem)
  /\ requestViewMode = "form"
  /\ rawEdited = FALSE

SpecConv == InitConv /\ [][NextConv]_vars

\* ============================================================ settings
\* The load and persist effects of App over the settings item.
MaxSettingsOps == 3

\* first render: the load effect, then the persist effect of the render that
\* follows it
Mount ==
  /\ ~hasLoadedSettings
  /\ LET l == [r \in Runs |->
                 loadSettings(storage[r], [rpcUrl |-> rpcUrl, privateKey |-> privateKey[r],
                                           globalMode |-> globalMode,
                                           localForkBlock |-> localForkBlock])]
     IN /\ rpcUrl' = l[1].rpcUrl
        /\ globalMode' = l[1].globalMode
        /\ localForkBlock' = l[1].localForkBlock
        /\ privateKey' = [r \in Runs |-> l[r].privateKey]
  /\ hasLoadedSettings' = TRUE
  /\ render(globalMode', dashboard, TRUE)
  /\ UNCHANGED <<convVars, activeView, tabs, poll, tr, traceReq, localForkStatus, snapshots,
                 activeSnapshotId, now, nextLocalId, lastStamp, envVars, flow, stopPc, probe, cntVars>>
  /\ persist
  /\ UNCHANGED shownVars
  /\ detailsEffect

\* the fork block input of the mode bar
setLocalForkBlock(b) ==
  /\ b # localForkBlock
  /\ ops < budget
  /\ ops' = ops + 1
  /\ localForkBlock' = b
  /\ UNCHANGED <<traceVars, convVars, modeVars, appVars, envVars, flow, stopPc, probe, budget,
                 privateKey, hasLoadedSettings>>
  /\ persist
  /\ UNCHANGED shownVars
  /\ detailsEffect

NextSettings ==
  \/ Mount
  \/ hasLoadedSettings /\ \E u \in LiveUrls, k \in [Runs -> Keys] : onUpdateSettings(u, k)
  \/ hasLoadedSettings /\ \E m \in {"live", "local"} : SetGlobalMode(m)
  \/ hasLoadedSettings /\ \E b \in LocalForkBlocks : setLocalForkBlock(b)

\* before the first render; the items of the two runs agree but for privateKey
InitSettings ==
  /\ InitApp /\ globalMode = "live" /\ TraceIdle /\ ConvIdle /\ ModeIdle /\ ReadIdle
  /\ budget = MaxSettingsOps
  /\ hasLoadedSettings = FALSE
  /\ privateKey = [r \in Runs |-> DEFAULT_PRIV_KEY]
  /\ localForkBlock = ""
  /\ storage \in {st \in [Runs -> StoredItems] :
                    [st[1] EXCEPT !.privateKey = "absent"] = [st[2] EXCEPT !.privateKey = "absent"]}

SpecSettings == InitSettings /\ [][NextSettings]_vars

\* C24: once the App has mounted the settings item holds no private key, the
\* two runs, which differ only in the key entered and in the privateKey field
\* of the item found, have written the same item, and until the operator
\* enters a key both sign with the same one.
C24_KeyNeverPersisted ==
  hasLoadedSettings =>
    /\ \A r \in Runs : storage[r].kind = "json" /\ storage[r].privateKey = "absent"
    /\ storage[1] = storage[2]
    /\ (ops = 0 => privateKey[1] = privateKey[2])
C24_Witness ==
  /\ hasLoadedSettings /\ privateKey[1] # privateKey[2]
  /\ \A r \in Runs : privateKey[r] # ANVIL_DEFAULT_KEY
  /\ storage[1] = stringify([host |-> "rpc.example", port |-> 443], "local", "19000000")

\* ==================================================== mode and dashboard
\* The mode switch with its effects (purge, client effects), the instance
\* tabs of the sidebar, the block poll, and the local executions that fill
\* the snapshot stack.

\* the view buttons of the activity bar
setActiveView(v) ==
  /\ v # activeView
  /\ ops < budget
  /\ ops' = ops + 1
  /\ activeView' = v
  /\ flow' = runEffects(flow, globalMode, v, tabs, localClients)
  /\ UNCHANGED <<shownVars, settingsVars, traceVars, convVars, tabs, dashVars, poll, appVars, envVars, stopPc, probe, budget>>
  /\ detailsEffect

\* both openers: the mode follows a local instance, the tab is added
openInstanceTab(inst, type) ==
  LET m == IF inst.mode = "local" /\ globalMode # "local" THEN "local" ELSE globalMode
      opened == tabs \cup {[type |-> type, instanceId |-> inst.id]}
  IN /\ activeView = "contracts"
     /\ ops < budget
     /\ ops' = ops + 1
     /\ globalMode' = m
     /\ tabs' = opened
     /\ render(m, dashboard, m # globalMode)
     /\ flow' = runEffects(flow, m, activeView, opened, localClients)
     /\ UNCHANGED <<traceVars, convVars, activeView, poll,
                    localForkStatus, snapshots, activeSnapshotId, now, nextLocalId, lastStamp,
                    envVars, stopPc, probe, budget, privateKey, localForkBlock, hasLoadedSettings>>
     /\ persist
     /\ UNCHANGED shownVars
     /\ detailsEffect

openInstanceFunctionTab(inst) == openInstanceTab(inst, "function")

openInstanceDetailsTab(inst) == openInstanceTab(inst, "details")

closeTab(t) ==
  /\ t \in tabs
  /\ activeView = "contracts"
  /\ ops < budget
  /\ ops' = ops + 1
  /\ tabs' = tabs \ {t}
  /\ UNCHANGED <<shownVars, settingsVars, traceVars, convVars, activeView, dashVars, poll, appVars, envVars, flow,
                 stopPc, probe, budget>>
  /\ detailsEffect

\* fetchLatest is called (on a re-run of the poll effect or by its timer):
\* getBlock goes to the explorer client of that render
PollRequest ==
  /\ poll.pc = "idle"
  /\ globalMode = "local" => localClients # NoId
  /\ poll' = [pc |-> "fetching", mode |-> globalMode,
              port |-> IF globalMode = "local" THEN localClients ELSE NoId]
  /\ UNCHANGED <<shownVars, settingsVars, traceVars, convVars, activeView, tabs, dashVars, appVars, envVars, flow,
                 stopPc, probe, cntVars>>
  /\ detailsEffect

\* latest blocks the endpoint of a poll may answer with
served(p) ==
  IF p.mode = "live" THEN {LiveBlock}
  ELSE IF svc.running /\ svc.port = p.port THEN {forkBlock(chain)} ELSE {}

\* the four state updates of fetchLatest for block b, tagged with mode m
withBlock(d, b, m) ==
  LET newTxs == SelectSeq(b.transactions, LAMBDA h : h \notin Range(d.recentTransactions))
      reversed == [i \in 1..Len(newTxs) |-> newTxs[Len(newTxs) + 1 - i]]
  IN [recentBlocks |->
        IF Len(d.recentBlocks) > 0 /\ d.recentBlocks[1].number = b.number
        THEN d.recentBlocks ELSE cap(<<b>> \o d.recentBlocks, RecentBlocksCap),
      blockModes |->
        IF d.blockModes[b.hash] # "none" THEN d.blockModes
        ELSE [d.blockModes EXCEPT ![b.hash] = m],
      recentTransactions |->
        IF newTxs = <<>> THEN d.recentTransactions
        ELSE cap(reversed \o d.recentTransactions, RecentTransactionsCap),
      txModes |->
        [h \in DOMAIN d.txModes |->
           IF h \in Range(b.transactions) /\ d.txModes[h] = "none" THEN m ELSE d.txModes[h]]]

\* getBlock answers, and the purge effect runs again when a tag map was
\* replaced; or getBlock rejects, which is logged
PollResponse ==
  /\ poll.pc = "fetching"
  /\ \/ \E b \in served(poll) :
          LET d == withBlock(dashboard, b, poll.mode) IN
          render(globalMode, d, d.blockModes # blockModes \/ Len(b.transactions) > 0)
     \/ served(poll) = {} /\ UNCHANGED dashVars
  /\ poll' = NoPoll
  /\ UNCHANGED <<shownVars, settingsVars, traceVars, convVars, activeView, tabs, appVars, envVars, flow,
                 stopPc, probe, cntVars>>
  /\ detailsEffect

NextMode ==
  \/ \E m \in {"live", "local"} : SetGlobalMode(m)
  \/ \E v \in {"contracts", "explorer"} : setActiveView(v)
  \/ \E inst \in deployedInstances : openInstanceFunctionTab(inst)
  \/ \E inst \in deployedInstances : openInstanceDetailsTab(inst)
  \/ \E t \in tabs : closeTab(t)
  \/ PollRequest
  \/ PollResponse
  \/ \E p \in PathsOf(DetailsTabId) : Execute(DetailsTabId, p)
  \/ \E f \in Flows : StartRequest(f)
  \/ \E f \in Flows : StartStatus(f)
  \/ \E f \in Flows : StartFail(f)
  \/ \E t \in Tabs : SnapshotRequest(t)
  \/ \E t \in Tabs : SnapshotRecord(t)
  \/ \E t \in Tabs : Submit(t)
  \/ \E t \in Tabs : Receipt(t)

InitMode == InitApp /\ ExtIdle /\ budget = MaxModeOps

SpecMode == InitMode /\ [][NextMode]_vars

\* ------------------------------------------------- the purge effect alone
MaxPurgeRuns == 2   \* runs of the purge effect followed apart from a handler

\* the purge effect runs after a render in which only txModes or blockModes
\* changed identity
PurgeEffect ==
  /\ purgeDue
  /\ purgeRuns < MaxPurgeRuns
  /\ purgeRuns' = purgeRuns + 1
  /\ LET e == IF globalMode = "live" THEN purge(dashboard) ELSE dashboard IN
     /\ recentBlocks' = e.recentBlocks
     /\ recentTransactions' = e.recentTransactions
     /\ blockModes' = e.blockModes
     /\ txModes' = e.txModes
  /\ purged' = IF globalMode = "live" THEN dropped(dashboard) ELSE purged
  /\ purgeDue' = (globalMode = "live")
  /\ UNCHANGED <<shownVars, settingsVars, traceVars, convVars, activeView, tabs, poll, appVars,
                 envVars, flow, stopPc, probe, cntVars>>
  /\ detailsEffect

NextPurge == NextMode \/ PurgeEffect

SpecPurge == InitMode /\ [][NextPurge]_vars

\* ============================================================== reads
\* The reads ContractDetailsTab and Explorer show, and the client of each.
MaxReadOps == 3

\* ContractDetailsTab activePublicClient (balance and storage reads)
activePublicClient ==
  IF globalMode = "local"
  THEN IF localPublicClient # NoId THEN forkClient(localPublicClient)
       ELSE IF localClients # NoId THEN forkClient(localClients)
       ELSE LiveClient
  ELSE LiveClient

\* the publicClient prop App passes to Explorer
explorerPublicClient ==
  IF globalMode = "local" /\ localClients # NoId THEN forkClient(localClients) ELSE LiveClient

\* refreshBalance, called by its effect when the tab opens or the client
\* changes and by the 5 s timer of the active tab
refreshBalance ==
  /\ detailsMounted(activeView, tabs)
  /\ contractBalance' = [client |-> activePublicClient, mode |-> globalMode]
  /\ UNCHANGED <<traceVars, convVars, modeVars, settingsVars, searchResult, localPublicClient,
                 appVars, envVars, flow, stopPc, probe, cntVars>>

\* Explorer performSearch: address, transaction and block lookups
performSearch ==
  /\ activeView = "explorer"
  /\ searchResult' = [client |-> explorerPublicClient, mode |-> globalMode]
  /\ UNCHANGED <<traceVars, convVars, modeVars, settingsVars, contractBalance, localPublicClient,
                 appVars, envVars, flow, stopPc, probe, cntVars>>

NextRead ==
  \/ \E m \in {"live", "local"} : SetGlobalMode(m)
  \/ \E v \in {"contracts", "explorer"} : setActiveView(v)
  \/ \E inst \in deployedInstances : openInstanceDetailsTab(inst)
  \/ \E t \in tabs : closeTab(t)
  \/ \E f \in Flows : StartRequest(f)
  \/ \E f \in Flows : StartStatus(f)
  \/ \E f \in Flows : StartFail(f)
  \/ StopRequest
  \/ StopTransportFail
  \/ StopCommit
  \/ refreshBalance
  \/ performSearch

InitRead == InitApp /\ ExtIdle /\ budget = MaxReadOps

SpecRead == InitRead /\ [][NextRead]_vars

\* C25: a read made in local mode (the contract balance or storage of a
\* details tab, a search of the explorer) is never served by the client of
\* the live endpoint.
C25_LocalReadsStayLocal ==
  \A rd \in {contractBalance, searchResult} : rd.mode = "local" => rd.client.kind # "live"

\* ================================================================ claims

\* entries of the list with that external snapshot id
present(snaps, sid) == \E i \in DOMAIN snaps : snaps[i].snapshotId = sid

\* nothing recorded so far has been removed from the list
NothingRemoved == Len(snapshots) = nextLocalId - 1

\* the step on which revertSnapshot applies its state updates
RevertCommits == flow[RevertId].pc = "reverted" /\ flow'[RevertId].pc = "idle"

\* a step on which the revertSnapshot call ends, either way
RevertEnds == flow[RevertId].pc # "idle" /\ flow'[RevertId].pc = "idle"

\* C1: when revertTo(X) commits for an X in the stack, exactly the entries with
\* createdAt > X.createdAt are removed, X and the older ones stay, headId is X:
\* what is left is the entries recorded up to X (A, B, C then revertTo(B)
\* leaves exactly [A, B]).
C1_RevertLeavesEntriesUpToTarget ==
  [][(RevertCommits /\ present(snapshots, flow[RevertId].target)) =>
       LET X == flow[RevertId].target
           i == findTarget(snapshots, X)
       IN /\ activeSnapshotId' = X
          /\ snapshots' = SelectSeq(snapshots, LAMBDA s : s.createdAt <= snapshots[i].createdAt)
          /\ snapshots' = SubSeq(snapshots, i, Len(snapshots))]_vars

\* C2: a revertTo whose id is not in the stack ends with an error and leaves
\* the entries and headId as they were.
C2_RevertUnknownIdFailsAndKeepsStack ==
  [][(RevertEnds /\ ~present(snapshots, flow[RevertId].target)) =>
       /\ flow'[RevertId].error # "none"
       /\ snapshots' = snapshots
       /\ activeSnapshotId' = activeSnapshotId]_vars

\* C3: every record made while no recorded entry has been removed puts an entry
\* with a createdAt strictly greater than the previous one at the top, and
\* headId is the external id of the entry just recorded.
C3_RecordsStrictlyIncreasing ==
  [][(Len(snapshots') = Len(snapshots) + 1 /\ NothingRemoved) =>
       /\ activeSnapshotId' = snapshots'[1].snapshotId
       /\ snapshots # <<>> => snapshots'[1].createdAt > snapshots[1].createdAt]_vars

\* no handler is suspended and no execution has failed
Quiet ==
  /\ \A f \in Flows : flow[f].pc = "idle" /\ flow[f].error = "none"
  /\ stopPc = "idle" /\ probe.pc = "idle"

\* the checkpoints the listed snapshots refer to on the node
listedCheckpoints ==
  {nodeSnaps[snapshots[i].snapshotId] :
     i \in {j \in DOMAIN snapshots : snapshots[j].snapshotId \in DOMAIN nodeSnaps}}

\* C4: after successful mutating local actions, with nothing reverted or
\* stopped, every mined action has a listed snapshot whose checkpoint is the
\* chain just before that action.
C4_EveryActionUndoable ==
  (Quiet /\ NothingRemoved /\ nextSnapId = nextLocalId) =>
     \A k \in DOMAIN chain : (k - 1) \in listedCheckpoints

\* C5: a local mutating request whose transaction has been submitted has
\* recorded its snapshot before (pendingSnapshotIdRef holds it), and it awaits
\* the receipt only with the hash of the submitted transaction.
C5_RecordBeforeSubmitBeforeReceipt ==
  \A t \in Tabs :
    (flow[t].pc = "receipt" /\ flow[t].mode = "local") =>
       flow[t].pending # NoId /\ flow[t].hash # NoId

\* a tab whose only execution of the run succeeded in local mode
SucceededAlone(t) ==
  /\ ops = 1
  /\ flow[t].pc = "idle" /\ flow[t].mode = "local"
  /\ flow[t].hash # NoId /\ flow[t].error = "none"

\* C6: one successful mutating local action on an empty stack, with nothing
\* else going on, leaves exactly two captures, whatever path dispatched it.
C6_FirstActionTwoCaptures ==
  \A t \in Tabs : SucceededAlone(t) => Len(snapshots) = 2 /\ nextSnapId = 3

\* C7: two callers that are inside ensureLocalClients at the same time never
\* both have sent a start request to the fork lifecycle service.
C7_SingleFlightStart ==
  \A f, g \in Flows : (f # g /\ flow[f].pc = "status") => flow[g].pc # "status"

\* C8: whenever a stopLocalFork call ends, the fork status is not running,
\* the stack is empty and headId is null.
C8_StopAlwaysClears ==
  [][(stopPc' # stopPc /\ stopPc' # "stopping") =>
       /\ ~localForkStatus'.running
       /\ snapshots' = <<>>
       /\ activeSnapshotId' = NoId]_vars

\* the step on which a local execution returns without error
FinishesOk(t) ==
  /\ flow[t].pc # "idle" /\ flow'[t].pc = "idle"
  /\ flow'[t].error = "none" /\ flow[t].mode = "local"

\* C9: when a local mutating request ends successfully, the snapshot it
\* recorded before dispatch (pendingSnapshotIdRef) is confirmed and carries
\* the transaction hash and the receipt's block number.
C9_PreDispatchSnapshotCarriesHash ==
  [][\A t \in Tabs : FinishesOk(t) =>
       \A i \in DOMAIN snapshots' :
          snapshots'[i].id = flow[t].pending =>
             /\ snapshots'[i].status = "confirmed"
             /\ snapshots'[i].txHash = flow'[t].hash
             /\ snapshots'[i].blockNumber = flow'[t].block]_vars

\* the step on which a local execution leaves its submission without a hash
SubmitRejected(t) ==
  flow[t].pc = "submit" /\ flow'[t].pc # "submit" /\ flow'[t].hash = NoId /\ flow[t].mode = "local"

\* C10: when a local submission fails, every listed snapshot of that request
\* has status error afterwards, the error state is set, loading is cleared and
\* (in RequestTab, which has the flag) the execution is flagged as failed.
C10_SubmitFailureMarksError ==
  [][\A t \in Tabs : SubmitRejected(t) =>
       /\ \A i \in DOMAIN snapshots' :
            snapshots'[i].req = flow[t].req => snapshots'[i].status = "error"
       /\ flow'[t].error # "none"
       /\ ~flow'[t].loading
       /\ t = RequestTabId => flow'[t].hadError]_vars

\* C10 witness: a submission failed after the pre-state snapshot of the request
\* was recorded, and that snapshot is listed with status error
C10_Witness ==
  \E t \in Tabs :
     /\ flow[t].pc = "idle" /\ flow[t].mode = "local" /\ flow[t].error = "submit"
     /\ \E i \in DOMAIN snapshots :
          snapshots[i].req = flow[t].req /\ snapshots[i].status = "error"

\* a step on which fetchTrace of that tab runs
TraceSent(t) == traceReq'[t].n # traceReq[t].n

\* C11: a trace requested by hash for the result the tab shows goes to the
\* endpoint that execution was dispatched to.
C11_TraceGoesToDispatchEndpoint ==
  [][\A t \in Tabs :
       (/\ TraceSent(t)
        /\ traceReq'[t].kind = "hash"
        /\ traceReq'[t].hash = tr'[t].response
        /\ tr'[t].dispatched # NoEndpoint)
       => traceReq'[t].endpoint = tr'[t].dispatched]_vars

\* C12: when fetchTrace of RequestTab runs after an execution has ended: with
\* no error and a known hash the trace is requested by that hash; with an
\* error it is requested by call, with the last call description at latest.
C12_TraceDecisionRule ==
  [][(TraceSent(RequestTabId) /\ tr'[RequestTabId].pc = "idle") =>
       LET r == tr'[RequestTabId]
           q == traceReq'[RequestTabId]
       IN /\ (~r.hadErrorRef /\ r.lastTxHash # NoId) =>
               (q.kind = "hash" /\ q.hash = r.lastTxHash)
          /\ r.hadErrorRef =>
               (q.kind = "call" /\ q.call = r.lastCallParams /\ q.blockTag = "latest")]_vars

\* C13: when fetchTrace of RequestTab runs after an execution that ended
\* without error and without a hash, and a call description is held, the
\* trace is requested by call.
C13_NoHashTracesByCall ==
  [][(TraceSent(RequestTabId) /\ tr'[RequestTabId].pc = "idle") =>
       LET r == tr'[RequestTabId] IN
       (~r.hadErrorRef /\ knownHash(r) = NoId /\ r.lastCallParams # NoId) =>
          traceReq'[RequestTabId].kind = "call"]_vars

\* a step that switches the request view from rpc to form
ToForm == requestViewMode = "rpc" /\ requestViewMode' = "form"

\* an envelope with hex numerals without leading zeros
WellFormed(e) == e # NoJson /\ ~e.value.lead /\ ~e.gas.lead

\* the calldata of the envelope is the one the form's arguments encode to
NoRederivation(e) ==
  e.data = IF abiItem.type = "deploy" THEN Bytecode ELSE encodeFunctionData(form.input)

\* C14: switching to form with a well-formed envelope in the raw editor whose
\* calldata is the form's (fromRaw), after which the editor is regenerated
\* from the form (toRaw), leaves the envelope as it was.
C14_ToRawFromRawIsIdentity ==
  [][(ToForm /\ WellFormed(rawJsonInput) /\ NoRederivation(rawJsonInput)) =>
       rawJsonInput' = rawJsonInput]_vars

\* what the form fields stand for: the value in wei, the gas limit and the
\* argument as integers, whatever unit or spelling they are written in
normalized(f) ==
  [value |-> IF getValueInWei(f) = NoWei THEN Zero ELSE getValueInWei(f),
   gas |-> IF f.gasLimit.empty THEN NoWei ELSE BigIntOf(f.gasLimit),
   input |-> BigIntOf(f.input)]

\* C15: form -> raw -> form (the raw editor opened and left without typing)
\* gives form fields that stand for the same value, gas limit and argument,
\* when the arguments encode; a second translation changes nothing more.
C15_FormRawFormKeepsFields ==
  [][(ToForm /\ ~rawEdited /\ encodeFunctionData(form.input) # NoData) =>
       /\ normalized(form') = normalized(form)
       /\ fromRaw(form', abiItem, rawJsonInput') = form']_vars

\* C16: in form view, whenever the form translates, the raw editor holds:
\* eth_call exactly for a read and eth_sendTransaction otherwise; the gas in
\* hex, omitted when the gas limit is empty; the value in hex, omitted for a
\* read without a value and 0x0 for a mutating call without a value.
C16_ToRawEncoding ==
  (requestViewMode = "form" /\ generateRawJson(form, abiItem) # NoJson) =>
     LET e == rawJsonInput
         wei == getValueInWei(form)
     IN /\ e.method = (IF abiItem.type = "function" /\ abiItem.view
                       THEN "eth_call" ELSE "eth_sendTransaction")
        /\ form.gasLimit.empty => ~e.gas.present
        /\ e.gas.present => (e.gas = Hex(BigIntOf(form.gasLimit)) /\ e.gas.amt # Zero)
        /\ (wei # NoWei /\ wei # Zero) => e.value = Hex(wei)
        /\ (wei = NoWei /\ e.method = "eth_call") => ~e.value.present
        /\ (wei = NoWei /\ e.method # "eth_call") => e.value = Hex(Zero)

\* C16 witness: a form with a non-zero value and a gas limit has been
\* translated, and the raw editor holds both in hex
C16_Witness ==
  /\ requestViewMode = "form" /\ generateRawJson(form, abiItem) # NoJson
  /\ ~form.value.empty /\ getValueInWei(form) # Zero
  /\ ~form.gasLimit.empty /\ rawJsonInput.gas.present
  /\ rawJsonInput.value = Hex(getValueInWei(form))

\* a step on which the mode goes from live to local while App holds no
\* running fork session
LiveToLocal == globalMode = "live" /\ globalMode' = "local" /\ ~localForkStatus.running

\* C17: the live to local transition alone, whatever tabs and views are open,
\* calls startLocalFork for no caller: the start waits for an execution, a
\* revert or a trace.
C17_LazyForkStart ==
  [][LiveToLocal =>
       \A f \in Flows : flow'[f].pc = "starting" => flow[f].pc = "starting"]_vars

\* a step on which the mode goes from local to live
LocalToLive == globalMode = "local" /\ globalMode' = "live"

\* C18: on a local to live transition the blocks and transactions tagged
\* local leave the dashboard together with their tags, every other entry and
\* tag stays, and the snapshot stack and headId are as before.
C18_PurgeOnSwitchToLive ==
  [][LocalToLive =>
       /\ \A b \in Range(recentBlocks) :
            b \in Range(recentBlocks') <=> blockModes[b.hash] # "local"
       /\ Range(recentBlocks') \subseteq Range(recentBlocks)
       /\ \A h \in Range(recentTransactions) :
            h \in Range(recentTransactions') <=> txModes[h] # "local"
       /\ Range(recentTransactions') \subseteq Range(recentTransactions)
       /\ \A h \in BlockHashes :
            blockModes'[h] = IF blockModes[h] = "local" THEN "none" ELSE blockModes[h]
       /\ \A h \in TxHashes :
            txModes'[h] = IF txModes[h] = "local" THEN "none" ELSE txModes[h]
       /\ snapshots' = snapshots
       /\ activeSnapshotId' = activeSnapshotId]_vars

\* C18 witness: the mode is live again after a purge that dropped a local
\* block, a live block is still listed with its tag, and the snapshot stack
\* of the fork session is still there
C18_Witness ==
  /\ globalMode = "live"
  /\ \E h \in purged : h \in BlockHashes
  /\ \E b \in Range(recentBlocks) : blockModes[b.hash] = "live"
  /\ \A b \in Range(recentBlocks) : b.hash \notin purged
  /\ snapshots # <<>>
  /\ activeSnapshotId # NoId

\* a step on which an instance tab of inst is opened
Opened(inst) ==
  \E type \in {"function", "details"} :
     LET t == [type |-> type, instanceId |-> inst.id] IN t \notin tabs /\ t \in tabs'

\* C19: opening a function or details tab of a deployed instance leaves the
\* current mode equal to the mode recorded for the instance, whether that
\* was the current mode or not.
C19_OpenInstanceSwitchesMode ==
  [][\A inst \in deployedInstances : Opened(inst) => globalMode' = inst.mode]_vars

\* App holds a client pair for the session the service is running
Cached == localClients # NoId /\ svc.running /\ svc.port = localClients

\* a step on which ensureLocalClients, called without a running session,
\* gets {running: true, port} from the service
ForkStarted == startCount' # startCount /\ ~localForkStatus.running /\ svc'.running

\* the clients ensureLocalClients returned on this step are those of port p
ReturnedPair(t, p) ==
  /\ (tr[t].pc = "dispatch" /\ tr'[t].pc = "receipt") => tr'[t].dispatched = forkRpc(p)
  /\ (TraceSent(t) /\ traceReq'[t].kind # "unavailable") => traceReq'[t].endpoint = forkRpc(p)

\* C20: a call of ensureClients without a running fork that gets
\* {running: true, port: p} from the service returns the pair of
\* http://127.0.0.1:p and sets the session to {running: true, port: p}; a
\* call made while a pair is cached for the running session does not contact
\* the lifecycle service.
C20_EnsureClients ==
  [][/\ ForkStarted =>
          /\ localForkStatus' = [running |-> TRUE, port |-> svc'.port]
          /\ \A t \in Tabs : tr'[t] # tr[t] \/ TraceSent(t) => ReturnedPair(t, svc'.port)
     /\ \A t \in Tabs : (TraceSent(t) /\ Cached) => startCount' = startCount]_vars

\* a step on which the status request of a start made for tab t is answered
\* without running = true and a port
StatusNotRunning(t) ==
  /\ flow[t].pc = "status" /\ flow'[t].pc # "status"
  /\ ~(svc.running /\ svc.port # NoId)

\* C21: when the status after a start request does not report running with a
\* port, the execution that asked for the start ends there with its error
\* set: nothing is submitted, no snapshot is recorded, the session stays as
\* it was.
C21_StartFailureAborts ==
  [][\A t \in Tabs : StatusNotRunning(t) =>
       /\ flow'[t].pc = "idle"
       /\ flow'[t].error # "none"
       /\ ~flow'[t].loading
       /\ flow'[t].hash = NoId
       /\ chain' = chain
       /\ snapshots' = snapshots
       /\ nodeSnaps' = nodeSnaps
       /\ localForkStatus' = localForkStatus]_vars

\* C21 witness: an execution was aborted by "Failed to start local fork"
\* after the service had received its start request
C21_Witness ==
  \E t \in Tabs :
     /\ flow[t].pc = "idle" /\ flow[t].error = "start" /\ flow[t].mode = "local"
     /\ flow[t].hash = NoId
     /\ startCount > 0
     /\ \A i \in DOMAIN snapshots : snapshots[i].req # flow[t].req

\* a step on which fetchForkStatus settles
ProbeSettles == probe.pc # "idle" /\ probe'.pc = "idle"

\* C22: when the liveness probe settles, the session becomes
\* {running: true, port} exactly when the response reports running with that
\* port and {running: false} otherwise (transport failure included), and no
\* handler sees an error from it.
C22_ProbeNeverThrows ==
  [][ProbeSettles =>
       /\ localForkStatus' =
            IF probe.pc = "inflight" /\ probe.running /\ probe.port # NoId
            THEN [running |-> TRUE, port |-> probe.port]
            ELSE [running |-> FALSE, port |-> NoId]
       /\ flow' = flow
       /\ stopPc' = stopPc]_vars

\* C22 witness: the session is running although the only start of the run
\* lost its status request: the probe set it, with the port of the service
C22_Witness ==
  /\ localForkStatus = [running |-> TRUE, port |-> svc.port]
  /\ svc.running
  /\ probe.pc = "idle"
  /\ \E t \in Tabs :
       /\ flow[t].pc = "idle" /\ flow[t].error = "transport"
       /\ \A f \in Flows \ {t} : flow[f] = IdleFlow

\* a step on which createSnapshotEntry of tab t calls onSnapshotCreated
Records(t) ==
  /\ flow[t].pc \in {"preRecord", "postRecord"}
  /\ flow'[t].pc \notin {"preRecord", "postRecord"}
  /\ nextLocalId' # nextLocalId

\* C23: under every interleaving of local executions a record call adds
\* exactly one entry on top of the stack and leaves the others as they were;
\* the entry has the external id and the call data of the call that recorded
\* it, and a transaction hash only of that call.
C23_RecordAppendsOneWholeEntry ==
  [][\A t \in Tabs : Records(t) =>
       /\ Len(snapshots') = Len(snapshots) + 1
       /\ \A i \in DOMAIN snapshots : snapshots'[i + 1] = snapshots[i]
       /\ snapshots'[1].id = nextLocalId
       /\ snapshots'[1].snapshotId = flow[t].snapId
       /\ snapshots'[1].req = flow[t].req
       /\ snapshots'[1].txHash \in {NoId, flow[t].hash}
       /\ \A i \in DOMAIN snapshots : snapshots[i].id # nextLocalId]_vars

\* C23 witness: two executions are in flight and each has recorded an entry
C23_Witness ==
  /\ \A t \in Tabs : flow[t].pc # "idle" /\ flow[t].mode = "local"
  /\ \A t \in Tabs : \E i \in DOMAIN snapshots : snapshots[i].req = flow[t].req
  /\ Len(snapshots) >= 2


\* a step on which tab t records its synthetic pre-state snapshot
RecordsPreState(t) == flow[t].pc = "preRecord" /\ nextLocalId' # nextLocalId

\* C26: a synthetic pre-state snapshot is recorded onto an empty stack only,
\* so at most one exists while the stack was empty, also when two tabs started
\* their executions before either recorded a snapshot.
C26_OnePreStateSnapshot ==
  [][\A t \in Tabs : RecordsPreState(t) => snapshots = <<>>]_vars


\* C27: once stop has completed and the service is down, the session stays
\* not running until a start succeeds: no step turns it to running while the
\* service is not running, in particular not the answer to a liveness probe
\* that was requested before the stop.
C27_StopIsMonotonic ==
  [][(~localForkStatus.running /\ localForkStatus'.running) => svc.running]_vars


\* stop has completed and nothing was started since: the service is down and
\* the session is not running
StoppedAndCleared == ~svc.running /\ ~localForkStatus.running /\ stopPc = "idle"

\* C28: once stop has cleared the stack, an execution or revert that was in
\* flight when the fork was stopped writes nothing to the snapshot state: as
\* long as nothing has been started again, entries and headId stay as they are.
C28_NoWriteAfterStop ==
  [][StoppedAndCleared => snapshots' = snapshots /\ activeSnapshotId' = activeSnapshotId]_vars


\* caller f finds no cached pair and goes on to startLocalFork, whose POST
\* /fork/start is sent before its first await
IssuesStart(f) == flow[f].pc # "starting" /\ flow'[f].pc = "starting"

\* no other caller is inside ensureLocalClients (two at once: see C7)
Alone(f) == \A g \in Flows \ {f} : flow[g].pc \notin {"starting", "status"}

\* C29: ensureLocalClients sends a start request to the service only when the
\* fork session is not running, neither at the service nor as App knows it;
\* for a running session without a cached pair it builds the pair instead.
\* Stated for a caller that is alone in ensureLocalClients.
C29_StartOnlyWhenNotRunning ==
  [][\A f \in Flows : IssuesStart(f) /\ Alone(f) =>
       ~svc.running /\ ~localForkStatus.running]_vars


\* C30: an entry stays pending until the dispatch it was created for has
\* settled: while its request is still running, no entry of that request is
\* confirmed before the transaction has its receipt.
C30_PendingUntilSettled ==
  \A i \in DOMAIN snapshots : \A t \in Tabs :
     (flow[t].pc # "idle" /\ snapshots[i].req = flow[t].req /\ snapshots[i].status = "confirmed")
       => flow[t].block # NoId

\* the step on which the dispatch of a local request fails: the submission or
\* the wait for the receipt rejects and the handler ends in its catch block
DispatchFails(t) ==
  /\ flow[t].pc \in {"submit", "receipt"} /\ flow[t].mode = "local"
  /\ flow'[t].pc = "idle" /\ flow'[t].error # "none"

\* C31: a failed local dispatch does not advance the head: after the failure
\* headId is what it was when the request started, so it is not a checkpoint
\* the failed request itself recorded.
C31_FailureKeepsHead ==
  [][\A t \in Tabs : DispatchFails(t) =>
       \A i \in DOMAIN snapshots' :
          snapshots'[i].req = flow[t].req => snapshots'[i].snapshotId # activeSnapshotId']_vars

\* C32: in form view the raw envelope denotes the call the form would submit:
\* same target and calldata (for a deploy the bytecode with the encoded
\* constructor argument) and, for a mutating call, same value and gas.
C32_RawDenotesFormCall ==
  (requestViewMode = "form" /\ formCall(form, abiItem) # NoCall) =>
     LET r == rawCall(rawJsonInput)
         c == formCall(form, abiItem)
     IN /\ r.to = c.to /\ r.data = c.data
        /\ ~isView(abiItem) => (r.value = c.value /\ r.gas = c.gas)

\* a step of tab t's handler for a read (view/pure function, eth_call) or for
\* a request made in live mode
ReadOrLiveStep(t) ==
  /\ flow'[t] # flow[t]
  /\ LET r == IF flow[t].pc = "idle" THEN flow'[t] ELSE flow[t]
     IN r.path \in ReadPaths \/ r.mode = "live"

RestoreThrows ==
  /\ flow[RevertId].pc = "reverting"
  /\ flow'[RevertId] # flow[RevertId] /\ flow'[RevertId].pc # "reverted"

\* C34: when the external restore throws, revertSnapshot leaves the entries
\* and headId as they were and ends with the failure shown to the operator.
C34_RestoreFailureKeepsStack ==
  [][RestoreThrows =>
       /\ snapshots' = snapshots /\ activeSnapshotId' = activeSnapshotId
       /\ flow'[RevertId].pc = "idle" /\ flow'[RevertId].error # "none"]_vars

\* C34 witness: a revert to an older snapshot than the head has failed, and the
\* stack still has its entries and its head
C34_Witness ==
  /\ flow[RevertId].pc = "idle" /\ flow[RevertId].error = "revert"
  /\ Len(snapshots) >= 2 /\ activeSnapshotId # NoId
  /\ activeSnapshotId # flow[RevertId].target

\* the external ids of the entries now in the stack
ListedIds == {snapshots[i].snapshotId : i \in 1..Len(snapshots)}

\* C35: headId is null or the external id of an entry in the stack, and it is
\* null whenever the stack is empty.
C35_HeadIsListed ==
  /\ activeSnapshotId = NoId \/ activeSnapshotId \in ListedIds
  /\ snapshots = <<>> => activeSnapshotId = NoId

\* C36: while the fork session is not running on the caller's side the
\* snapshot stack is empty and headId is null.
C36_EndedSessionHasNoSnapshots ==
  ~localForkStatus.running => snapshots = <<>> /\ activeSnapshotId = NoId

\* the step on which a successful execution of RequestTab ends and its finally
\* block calls fetchTrace because the trace view was selected
AutoTraceAfterSuccess ==
  /\ tr[RequestTabId].pc = "receipt" /\ tr[RequestTabId].cl.auto
  /\ tr'[RequestTabId].pc = "idle" /\ ~tr'[RequestTabId].error

\* C37: a trace requested automatically after a successful execution carries
\* the hash of that execution and goes to an endpoint of that execution's mode.
C37_AutoTraceIsForThisExecution ==
  [][(AutoTraceAfterSuccess /\ TraceSent(RequestTabId)
        /\ traceReq'[RequestTabId].kind = "hash") =>
       LET r == tr'[RequestTabId]
           q == traceReq'[RequestTabId]
       IN /\ q.hash = r.response
          /\ (r.lastExecutionMode = "local") = (q.endpoint \notin LiveUrls)]_vars

\* C38: of any two entries in the stack, the one with the smaller createdAt
\* holds the checkpoint the node took earlier (checkpoint ids are handed out
\* in the order the checkpoints are taken).
C38_StampOrderIsCheckpointOrder ==
  \A i, j \in DOMAIN snapshots :
     snapshots[i].createdAt < snapshots[j].createdAt =>
       snapshots[i].snapshotId < snapshots[j].snapshotId

\* a step on which the purge effect runs on its own
PurgeRan == purgeRuns' # purgeRuns

\* C39: in live mode, a run of the purge effect that finds no local-tagged
\* block or transaction updates no state and is not scheduled again by its
\* own writes.
C39_PurgeReachesFixedPoint ==
  [][(PurgeRan /\ globalMode = "live" /\ dropped(dashboard) = {}) =>
       /\ dashboard' = dashboard
       /\ ~purgeDue']_vars

====
